---------------------------- MODULE Spec2Model ----------------------------
(***************************************************************************)
(* Model of analysis/simulate_dmd.py: diffraction from a digital           *)
(* micromirror device.                                                     *)
(*                                                                         *)
(* Real numbers are modelled exactly.  A number is a finite sum of         *)
(* rational multiples of square roots of squarefree naturals (a function   *)
(* from the radicand to the rational coefficient, zero terms dropped), or  *)
(* NaN.  Angles are modelled by their tangent and their branch.  Complex   *)
(* numbers are pairs of numbers.  The sinc of a non-zero argument is kept  *)
(* as a symbol.  Floating-point rounding is not modelled: "equal" below    *)
(* means equal as real numbers.                                            *)
(***************************************************************************)
EXTENDS Integers, Sequences, FiniteSets, TLC

VARIABLES
    args,   \* the inputs of the call or scenario under way
    step,   \* where the call or scenario stands
    res,    \* the values computed so far, at the end the value returned
    tasks,  \* simulate_dmd: the state of each per-direction task
    results,\* simulate_dmd: the result list of the worker pool, by task index
    prev    \* simulate_dmd: the call before this one, for comparison

vars == <<args, step, res, tasks, results, prev>>

\* the scenarios that call no simulation leave its variables empty
NoSimulation == tasks = <<>> /\ results = <<>> /\ prev = <<>>

(***************************************************************************)
(* Only(S) is the element of a one-element set.  Only({e(v) : v \in {x}})  *)
(* is e(x) with x evaluated once, before e: the definitions below use it   *)
(* where the code binds a local variable.                                  *)
(***************************************************************************)
Only(S) == CHOOSE z \in S : TRUE

(***************************************************************************)
(* Rational arithmetic: <<n, d>> with d > 0 and gcd(n, d) = 1.             *)
(***************************************************************************)
IAbs(i) == IF i < 0 THEN -i ELSE i

RECURSIVE GCD(_, _)
GCD(a, b) == IF b = 0 THEN a ELSE GCD(b, a % b)

RNorm(n, d) ==
    Only({<<(IF b < 0 THEN -a ELSE a) \div g, IAbs(b) \div g>> :
            <<a, b, g>> \in {<<n, d, GCD(IAbs(n), IAbs(d))>>}})

RZero == <<0, 1>>
ROne == <<1, 1>>
RAdd(p, q) ==
    Only({RNorm(p[1] * (q[2] \div g) + q[1] * (p[2] \div g), p[2] * (q[2] \div g)) :
            g \in {GCD(p[2], q[2])}})
RNeg(p) == <<-p[1], p[2]>>
RMul(p, q) ==
    IF p[1] = 0 \/ q[1] = 0 THEN RZero
    ELSE Only({RNorm((p[1] \div g1) * (q[1] \div g2), (p[2] \div g2) * (q[2] \div g1)) :
                 g1 \in {GCD(IAbs(p[1]), q[2])}, g2 \in {GCD(IAbs(q[1]), p[2])}})
RInv(p) == RNorm(p[2], p[1])
RSign(p) == IF p[1] > 0 THEN 1 ELSE IF p[1] < 0 THEN -1 ELSE 0
RLt(p, q) == p[1] * q[2] < q[1] * p[2]
RFloor(p) == p[1] \div p[2]

\* Largest r with r*r <= n, for lo*lo <= n < (hi + 1)*(hi + 1).
RECURSIVE ISqrtIn(_, _, _)
ISqrtIn(n, lo, hi) ==
    IF lo >= hi THEN lo
    ELSE Only({IF m * m <= n THEN ISqrtIn(n, m, hi) ELSE ISqrtIn(n, lo, m - 1) :
                 m \in {(lo + hi + 1) \div 2}})

\* Largest k with k*k dividing n (n >= 1).
SquarePart(n) ==
    Only({CHOOSE k \in S : \A j \in S : j <= k :
            S \in {{k \in 1..ISqrtIn(n, 1, IF n < 46340 THEN n ELSE 46340) :
                       n % (k * k) = 0}}})

(***************************************************************************)
(* Numbers: sums of rational multiples of square roots.                    *)
(*   [r \in Radicands |-> coefficient]; the radicand 1 holds the rational  *)
(*   part; the radicand 0 marks NaN.                                       *)
(***************************************************************************)
NaN == [r \in {0} |-> <<0, 1>>]
IsNaN(x) == 0 \in DOMAIN x

Zero == [r \in {} |-> <<0, 1>>]
Term(c, r) == Only({IF v[1] = 0 THEN Zero ELSE [q \in {r} |-> v] : v \in {c}})
Rat(n, d) == Term(RNorm(n, d), 1)
IntN(n) == Term(<<n, 1>>, 1)
One == [q \in {1} |-> <<1, 1>>]
Coef(x, r) == IF r \in DOMAIN x THEN x[r] ELSE RZero
IsRational(x) == DOMAIN x \subseteq {1}
RatOf(x) == Coef(x, 1)

Drop(x) == Only({[r \in {q \in DOMAIN a : a[q][1] # 0} |-> a[r]] : a \in {x}})

Add(x, y) ==
    Only({IF IsNaN(a) \/ IsNaN(b) THEN NaN
          ELSE Drop([r \in DOMAIN a \cup DOMAIN b |-> RAdd(Coef(a, r), Coef(b, r))]) :
            a \in {x}, b \in {y}})
Neg(x) == Only({IF IsNaN(a) THEN NaN ELSE [r \in DOMAIN a |-> RNeg(a[r])] : a \in {x}})
Sub(x, y) == Add(x, Neg(y))

\* sqrt(r1) * sqrt(r2) = g * sqrt((r1/g) * (r2/g)), g = gcd(r1, r2)
MulRad(r1, r2) == Only({(r1 \div g) * (r2 \div g) : g \in {GCD(r1, r2)}})

\* Sum of x[p[1]] * y[p[2]] * gcd(p[1], p[2]) over the radicand pairs p in S.
RECURSIVE MulSum(_, _, _)
MulSum(x, y, S) ==
    IF S = {} THEN RZero
    ELSE Only({RAdd(RMul(RMul(x[p[1]], y[p[2]]), <<GCD(p[1], p[2]), 1>>),
                    MulSum(x, y, S \ {p})) : p \in {CHOOSE e \in S : TRUE}})

Mul(x, y) ==
    Only({IF IsNaN(a) \/ IsNaN(b) THEN NaN
          ELSE Only({Drop([r \in {MulRad(p[1], p[2]) : p \in P} |->
                             MulSum(a, b, {p \in P : MulRad(p[1], p[2]) = r})]) :
                       P \in {(DOMAIN a) \X (DOMAIN b)}}) :
            a \in {x}, b \in {y}})

Sq(x) == Only({Mul(a, a) : a \in {x}})

\* Sign of a number of at most two terms: a*sqrt(m) + b*sqrt(n).
SignOf(x) ==
    IF DOMAIN x = {} THEN 0
    ELSE IF Cardinality(DOMAIN x) = 1
         THEN RSign(x[CHOOSE r \in DOMAIN x : TRUE])
    ELSE IF Cardinality(DOMAIN x) > 2 THEN CHOOSE unsupported \in {} : TRUE
    ELSE Only({IF RSign(x[m]) = RSign(x[n]) THEN RSign(x[m])
               ELSE IF RLt(RMul(RMul(x[n], x[n]), <<n, 1>>),
                           RMul(RMul(x[m], x[m]), <<m, 1>>))
                    THEN RSign(x[m]) ELSE RSign(x[n]) :
                 <<m, n>> \in {<<q, CHOOSE r \in DOMAIN x : r # q>> :
                                 q \in {CHOOSE r \in DOMAIN x : TRUE}}})
Sign(x) == Only({SignOf(a) : a \in {x}})

Lt(x, y) == Only({~IsNaN(a) /\ ~IsNaN(b) /\ Sign(Sub(a, b)) < 0 : a \in {x}, b \in {y}})
Le(x, y) == Only({~IsNaN(a) /\ ~IsNaN(b) /\ Sign(Sub(a, b)) <= 0 : a \in {x}, b \in {y}})
NAbs(x) ==
    Only({IF IsNaN(a) THEN NaN ELSE IF Sign(a) < 0 THEN Neg(a) ELSE a : a \in {x}})

\* 1/x for a number of one term (c*sqrt(r)) or two terms (by the conjugate).
\* Division by zero gives NaN here: the model never relies on an infinity.
InvOf(x) ==
    IF IsNaN(x) \/ DOMAIN x = {} THEN NaN
    ELSE IF Cardinality(DOMAIN x) = 1
         THEN Only({Term(RInv(RMul(x[r], <<r, 1>>)), r) : r \in DOMAIN x})
    ELSE Only({Mul(conj, Term(RInv(RatOf(Mul(x, conj))), 1)) :
                 conj \in {[r \in DOMAIN x |->
                              IF r = (CHOOSE m \in DOMAIN x : TRUE)
                              THEN x[r] ELSE RNeg(x[r])]}})
Inv(x) == Only({InvOf(a) : a \in {x}})
Div(x, y) == Mul(x, Inv(y))

\* np.sqrt of a rational number: NaN below zero, else (sn/(sd*rd))*sqrt(rn*rd).
SqrtOf(x) ==
    IF IsNaN(x) THEN NaN
    ELSE IF Sign(x) < 0 THEN NaN
    ELSE IF DOMAIN x = {} THEN Zero
    ELSE Only({Term(RNorm(sn, sd * (d \div (sd * sd))),
                    (n \div (sn * sn)) * (d \div (sd * sd))) :
                 <<n, d, sn, sd>> \in {<<RatOf(x)[1], RatOf(x)[2],
                                         SquarePart(RatOf(x)[1]),
                                         SquarePart(RatOf(x)[2])>>}})
Sqrt(x) == Only({SqrtOf(a) : a \in {x}})

Two == [q \in {1} |-> <<2, 1>>]
Half == [q \in {1} |-> <<1, 2>>]
Sqrt2 == [q \in {2} |-> <<1, 1>>]
IsInteger(x) == Only({IsRational(a) /\ RatOf(a)[2] = 1 : a \in {x}})

(***************************************************************************)
(* Angles.  An angle is arctan(t) + k*pi: its tangent t and its branch k.  *)
(* Angles strictly inside (-pi/2, pi/2) are those of branch 0.             *)
(***************************************************************************)
Angle(t, k) == [t |-> t, k |-> k]
\* np.tan: periodic, the branch is lost
Tan(a) == a.t
\* np.arctan: the principal branch
ArcTan(x) == Angle(x, 0)
\* np.cos, np.sin: cos(arctan t + k pi) = (-1)^k / sqrt(1 + t^2)
Cos(a) ==
    Only({IF k % 2 = 0 THEN c ELSE Neg(c) :
            <<k, c>> \in {<<b.k, Inv(Sqrt(Add(One, Sq(b.t))))>> : b \in {a}}})
Sin(a) == Only({Mul(b.t, Cos(b)) : b \in {a}})
NegAngle(a) == Only({Angle(Neg(b.t), -b.k) : b \in {a}})

(***************************************************************************)
(* Complex numbers and the exponentials exp(2 pi i * phi) for phi a        *)
(* multiple of 1/8 of a turn.                                              *)
(***************************************************************************)
Cx(re, im) == [re |-> re, im |-> im]
CZero == Cx(Zero, Zero)
COne == Cx(One, Zero)
CAdd(u, v) == Only({Cx(Add(a.re, b.re), Add(a.im, b.im)) : a \in {u}, b \in {v}})
CMul(u, v) ==
    Only({Cx(Sub(Mul(a.re, b.re), Mul(a.im, b.im)),
             Add(Mul(a.re, b.im), Mul(a.im, b.re))) : a \in {u}, b \in {v}})
CScale(x, u) == Only({Cx(Mul(c, a.re), Mul(c, a.im)) : c \in {x}, a \in {u}})
CConj(u) == Only({Cx(a.re, Neg(a.im)) : a \in {u}})
CIsNaN(u) == Only({IsNaN(a.re) \/ IsNaN(a.im) : a \in {u}})

\* cos(2 pi j / 8) for j in 0..7
HalfSqrt2 == [q \in {2} |-> <<1, 2>>]
CosEighth(j) ==
    CASE j = 0 -> One
      [] j = 1 -> HalfSqrt2
      [] j = 2 -> Zero
      [] j = 3 -> Neg(HalfSqrt2)
      [] j = 4 -> Neg(One)
      [] j = 5 -> Neg(HalfSqrt2)
      [] j = 6 -> Zero
      [] j = 7 -> HalfSqrt2
\* cos and sin of 2*pi*phi, phi a rational number of turns with 8*phi an integer
\* (anything else is outside the model and stops the check)
EighthsOf(phi) ==
    IF IsRational(phi) /\ 8 % RatOf(phi)[2] = 0
    THEN (RatOf(phi)[1] * (8 \div RatOf(phi)[2])) % 8
    ELSE CHOOSE unsupported \in {} : TRUE
CosTurn(phi) == IF IsNaN(phi) THEN NaN ELSE CosEighth(EighthsOf(phi))
SinTurn(phi) == IF IsNaN(phi) THEN NaN ELSE CosEighth((EighthsOf(phi) + 6) % 8)
\* np.exp(1j * 2*np.pi * phi)
CExpTurn(phi) == Only({Cx(CosTurn(a), SinTurn(a)) : a \in {phi}})

(***************************************************************************)
(* sinc_fn, blaze_condition_fn, blaze_envelope                             *)
(*                                                                         *)
(* Arguments of the sinc are held in units of pi.  A sinc value is         *)
(* c * S(a): the number c times the symbol sin(pi a)/(pi a) of a non-zero, *)
(* non-integer a; a = Zero stands for no symbol (factor 1).                *)
(***************************************************************************)
SincVal(c, a) == [c |-> c, a |-> a]

\* np.sin(x) / x : 0/0 is NaN at x = 0; sin(pi n) = 0 at a non-zero integer
SinOverX(x) ==
    Only({IF IsNaN(a) THEN SincVal(NaN, Zero)
          ELSE IF a = Zero THEN SincVal(NaN, Zero)
          ELSE IF IsInteger(a) THEN SincVal(Zero, Zero)
          ELSE SincVal(One, a) : a \in {x}})

\* mutant: without the assignment y[x == 0] = 1
sinc_fn_without_fixup(x) == SinOverX(x)

sinc_fn(x) ==
    Only({IF a = Zero THEN SincVal(One, Zero) ELSE y :
            <<a, y>> \in {<<b, SinOverX(b)>> : b \in {x}}})

\* n_vec=(1/np.sqrt(2), 1/np.sqrt(2), 0)
DefaultNVec == <<HalfSqrt2, HalfSqrt2, Zero>>

\* mutant: the rotation about n_vec taken by +gamma instead of -gamma
blaze_condition_fn_transposed(gamma, amb, mode, n_vec) ==
    Only({IF mode = "plus"
          THEN Add(Add(Mul(Add(Mul(Sq(nx), omc), c), a[1]),
                       Mul(Sub(Mul(Mul(nx, ny), omc), Mul(nz, s)), a[2])),
                   Mul(Add(Mul(Mul(nx, nz), omc), Mul(ny, s)), a[3]))
          ELSE Add(Add(Mul(Add(Mul(Mul(nx, ny), omc), Mul(nz, s)), a[1]),
                       Mul(Add(Mul(Sq(ny), omc), c), a[2])),
                   Mul(Sub(Mul(Mul(ny, nz), omc), Mul(nx, s)), a[3])) :
            <<nx, ny, nz>> \in {n_vec}, a \in {amb},
            <<c, s, omc>> \in {<<Cos(g), Sin(g), Sub(One, Cos(g))>> : g \in {gamma}}})

\* c, s, omc: np.cos(gamma), np.sin(gamma), 1 - np.cos(gamma)
blaze_condition_fn(gamma, amb, mode, n_vec) ==
    Only({IF mode = "plus"
          THEN Add(Add(Mul(Add(Mul(Sq(nx), omc), c), a[1]),
                       Mul(Add(Mul(Mul(nx, ny), omc), Mul(nz, s)), a[2])),
                   Mul(Sub(Mul(Mul(nx, nz), omc), Mul(ny, s)), a[3]))
          ELSE Add(Add(Mul(Sub(Mul(Mul(nx, ny), omc), Mul(nz, s)), a[1]),
                       Mul(Add(Mul(Sq(ny), omc), c), a[2])),
                   Mul(Add(Mul(Mul(ny, nz), omc), Mul(nx, s)), a[3])) :
            <<nx, ny, nz>> \in {n_vec}, a \in {amb},
            <<c, s, omc>> \in {<<Cos(g), Sin(g), Sub(One, Cos(g))>> : g \in {gamma}}})

\* An envelope value c * S(p) * S(m).
EnvVal(c, p, m) ==
    Only({IF a = Zero THEN [c |-> Zero, p |-> Zero, m |-> Zero]
          ELSE IF IsNaN(a) THEN [c |-> NaN, p |-> Zero, m |-> Zero]
          ELSE [c |-> a, p |-> p, m |-> m] : a \in {c}})
EnvScale(x, e) == Only({EnvVal(Mul(x, a.c), a.p, a.m) : a \in {e}})
EnvNum(x) == EnvVal(x, Zero, Zero)

\* k = 2*np.pi / wavelength, here in units of pi
blaze_envelope(wavelength, gamma, wx, wy, a_minus_b, n_vec) ==
    Only({EnvVal(Mul(sp.c, sm.c), sp.a, sm.a) :
            <<sp, sm>> \in
                {<<sinc_fn(Mul(Mul(Mul(Half, k), wx),
                               blaze_condition_fn(g, amb, "plus", n_vec))),
                   sinc_fn(Mul(Mul(Mul(Half, k), wy),
                               blaze_condition_fn(g, amb, "minus", n_vec)))>> :
                   k \in {Div(Two, wavelength)}, g \in {gamma}, amb \in {a_minus_b}}})

(***************************************************************************)
(* Coordinate transforms                                                   *)
(***************************************************************************)
\* mutant: the inverse taken to be the forward transform at -gamma
mirror2xyz_by_negated_gamma(v1, v2, v3, gamma) ==
    Only({<<Sub(Mul(Div(c, Sqrt2), Sub(a1, a2)), Mul(s, a3)),
            Mul(Div(One, Sqrt2), Add(a1, a2)),
            Add(Mul(Div(s, Sqrt2), Sub(a1, a2)), Mul(c, a3))>> :
            a1 \in {v1}, a2 \in {v2}, a3 \in {v3},
            <<c, s>> \in {<<Cos(g), Sin(g)>> : g \in {NegAngle(gamma)}}})

\* c, s: np.cos(gamma), np.sin(gamma)
xyz2mirror(vx, vy, vz, gamma) ==
    Only({<<Sub(Mul(Div(c, Sqrt2), Sub(x, y)), Mul(s, z)),
            Mul(Div(One, Sqrt2), Add(x, y)),
            Add(Mul(Div(s, Sqrt2), Sub(x, y)), Mul(c, z))>> :
            x \in {vx}, y \in {vy}, z \in {vz},
            <<c, s>> \in {<<Cos(g), Sin(g)>> : g \in {gamma}}})

mirror2xyz(v1, v2, v3, gamma) ==
    Only({<<Add(Add(Mul(Div(c, Sqrt2), a1), Mul(Div(One, Sqrt2), a2)),
                Mul(Div(s, Sqrt2), a3)),
            Sub(Add(Mul(Div(Neg(c), Sqrt2), a1), Mul(Div(One, Sqrt2), a2)),
                Mul(Div(s, Sqrt2), a3)),
            Add(Mul(Neg(s), a1), Mul(c, a3))>> :
            a1 \in {v1}, a2 \in {v2}, a3 \in {v3},
            <<c, s>> \in {<<Cos(g), Sin(g)>> : g \in {gamma}}})

\* mutant: the normalization without the absolute value
uvector2txty_signed(vx, vy, vz) ==
    Only({<<ArcTan(Mul(vx, norm_factor)), ArcTan(Mul(vy, norm_factor))>> :
            norm_factor \in {Div(One, vz)}})

uvector2txty(vx, vy, vz) ==
    Only({<<ArcTan(Mul(vx, norm_factor)), ArcTan(Mul(vy, norm_factor))>> :
            norm_factor \in {NAbs(Div(One, vz))}})

\* mutant: any mode other than "in" is taken as "out"
get_unit_vector_out_by_default(tx, ty, mode) ==
    Only({IF mode = "in" THEN <<Div(ux, norm), Div(uy, norm), Div(Neg(One), norm)>>
          ELSE <<Div(ux, norm), Div(uy, norm), Div(One, norm)>> :
            <<ux, uy, norm>> \in
                {<<a, b, Sqrt(Add(Add(Sq(a), Sq(b)), One))>> :
                   a \in {Tan(tx)}, b \in {Tan(ty)}}})

\* the ValueError of an unknown mode is the one-element tuple <<"ValueError">>
get_unit_vector(tx, ty, mode) ==
    Only({IF mode = "in" THEN <<Div(ux, norm), Div(uy, norm), Div(Neg(One), norm)>>
          ELSE IF mode = "out" THEN <<Div(ux, norm), Div(uy, norm), Div(One, norm)>>
          ELSE <<"ValueError">> :
            <<ux, uy, norm>> \in
                {<<a, b, Sqrt(Add(Add(Sq(a), Sq(b)), One))>> :
                   a \in {Tan(tx)}, b \in {Tan(ty)}}})

(***************************************************************************)
(* Blaze and diffraction condition solvers (one vector at a time; the      *)
(* source applies them along the leading axes of an array)                 *)
(***************************************************************************)
VSub(a, b) ==
    Only({<<Sub(u[1], v[1]), Sub(u[2], v[2]), Sub(u[3], v[3])>> : u \in {a}, v \in {b}})
VIsNaN(v) == Only({IsNaN(u[1]) \/ IsNaN(u[2]) \/ IsNaN(u[3]) : u \in {v}})
VAllNaN(v) == Only({IsNaN(u[1]) /\ IsNaN(u[2]) /\ IsNaN(u[3]) : u \in {v}})
NormSq(v) == Only({Add(Add(Sq(u[1]), Sq(u[2])), Sq(u[3])) : u \in {v}})

\* mutant: transformed back with the opposite mirror angle
solve_blaze_output_back_at_minus_gamma(uvec_in, gamma) ==
    Only({mirror2xyz(a[1], a[2], Neg(a[3]), NegAngle(g)) :
            <<a, g>> \in {<<xyz2mirror(u[1], u[2], u[3], h), h>> :
                            u \in {uvec_in}, h \in {gamma}}})

solve_blaze_output(uvec_in, gamma) ==
    Only({mirror2xyz(a[1], a[2], Neg(a[3]), g) :
            <<a, g>> \in {<<xyz2mirror(u[1], u[2], u[3], h), h>> :
                            u \in {uvec_in}, h \in {gamma}}})

solve_blaze_input(uvec_out, gamma) == solve_blaze_output(uvec_out, gamma)

\* mutant: the positive root taken for the z-component of the input vector
solve_diffraction_input_positive_root(uvec_out, dx, dy, wavelength, order) ==
    Only({<<ax, ay, Sqrt(Sub(Sub(One, Sq(ax)), Sq(ay)))>> :
            <<ax, ay>> \in
                {<<Add(u[1], Mul(Div(wavelength, dx), IntN(order[1]))),
                   Add(u[2], Mul(Div(wavelength, dy), IntN(order[2])))>> :
                   u \in {uvec_out}}})

solve_diffraction_input(uvec_out, dx, dy, wavelength, order) ==
    Only({<<ax, ay, Neg(Sqrt(Sub(Sub(One, Sq(ax)), Sq(ay))))>> :
            <<ax, ay>> \in
                {<<Add(u[1], Mul(Div(wavelength, dx), IntN(order[1]))),
                   Add(u[2], Mul(Div(wavelength, dy), IntN(order[2])))>> :
                   u \in {uvec_out}}})

\* mutant: the points without solution are not flagged
solve_diffraction_output_unflagged(uvec_in, dx, dy, wavelength, order) ==
    Only({<<bx, by, Sqrt(Sub(Sub(One, Sq(bx)), Sq(by)))>> :
            <<bx, by>> \in
                {<<Sub(u[1], Mul(Div(wavelength, dx), IntN(order[1]))),
                   Sub(u[2], Mul(Div(wavelength, dy), IntN(order[2])))>> :
                   u \in {uvec_in}}})

\* bx[np.isnan(bz)] = np.nan and by[np.isnan(bz)] = np.nan
solve_diffraction_output(uvec_in, dx, dy, wavelength, order) ==
    Only({<<IF IsNaN(bz) THEN NaN ELSE bx, IF IsNaN(bz) THEN NaN ELSE by, bz>> :
            <<bx, by, bz>> \in
                {<<b1, b2, Sqrt(Sub(Sub(One, Sq(b1)), Sq(b2)))>> :
                   <<b1, b2>> \in
                       {<<Sub(u[1], Mul(Div(wavelength, dx), IntN(order[1]))),
                          Sub(u[2], Mul(Div(wavelength, dy), IntN(order[2])))>> :
                          u \in {uvec_in}}}})

(***************************************************************************)
(* simulate_dmd: the per-direction computation                             *)
(*                                                                         *)
(* A field is a sum of envelope symbols times complex numbers: a function  *)
(* from the pair <<p, m>> of sinc arguments (<<Zero, Zero>>: no symbol) to *)
(* the complex coefficient, zero coefficients dropped.                     *)
(***************************************************************************)
CNaN == Cx(NaN, NaN)
NoSym == <<Zero, Zero>>
FieldZero == [k \in {} |-> CZero]
FieldNaN == [k \in {NoSym} |-> CNaN]
FieldIsNaN(f) == \E k \in DOMAIN f : CIsNaN(f[k])
FieldCoef(f, k) == IF k \in DOMAIN f THEN f[k] ELSE CZero
FieldAdd(f, g) ==
    Only({IF FieldIsNaN(a) \/ FieldIsNaN(b) THEN FieldNaN
          ELSE Only({[k \in {q \in DOMAIN h : h[q] # CZero} |-> h[k]] :
                       h \in {[k \in DOMAIN a \cup DOMAIN b |->
                                 CAdd(FieldCoef(a, k), FieldCoef(b, k))]}}) :
            a \in {f}, b \in {g}})
\* envelope value times complex number
FieldTerm(env, z) ==
    Only({IF IsNaN(e.c) \/ CIsNaN(u) THEN FieldNaN
          ELSE IF e.c = Zero \/ u = CZero THEN FieldZero
          ELSE [k \in {<<e.p, e.m>>} |-> CScale(e.c, u)] : e \in {env}, u \in {z}})
CSumNaN(u, v) ==
    Only({IF CIsNaN(a) \/ CIsNaN(b) THEN CNaN ELSE CAdd(a, b) : a \in {u}, b \in {v}})

PatternNy(pattern) == Len(pattern)
PatternNx(pattern) == Len(pattern[1])
Mirrors(pattern) == (1..PatternNy(pattern)) \X (1..PatternNx(pattern))

\* zshifts = None stands for np.zeros(pattern.shape)
None == <<>>
ZShifts(call) ==
    IF call.zshifts = None
    THEN [my \in 1..PatternNy(call.pattern) |-> [mx \in 1..PatternNx(call.pattern) |-> Zero]]
    ELSE call.zshifts

\* np.exp(1j * 2*np.pi / wavelength * (dx*mxmx*amb[0] + dy*mymy*amb[1] + zshifts*amb[2]))
\* for the mirror in row my, column mx (counted from 1 here, from 0 in the source)
Phase(call, amb, my, mx) ==
    CExpTurn(Div(Add(Add(Mul(Mul(call.dx, IntN(mx - 1)), amb[1]),
                         Mul(Mul(call.dy, IntN(my - 1)), amb[2])),
                     Mul(ZShifts(call)[my][mx], amb[3])),
                 call.wavelength))

RECURSIVE SumPhases(_, _, _)
SumPhases(call, amb, S) ==
    IF S = {} THEN CZero
    ELSE Only({CSumNaN(Phase(call, amb, q[1], q[2]), SumPhases(call, amb, S \ {q})) :
                 q \in {CHOOSE e \in S : TRUE}})

\* mutant: the two envelopes assigned the other way round
MaskTerm_swapped(call, amb, on, off, my, mx) ==
    Only({IF call.pattern[my][mx] = 0 THEN FieldTerm(on, phase)
          ELSE IF call.pattern[my][mx] = 1 THEN FieldTerm(off, phase)
          ELSE FieldZero : phase \in {Phase(call, amb, my, mx)}})

\* the entry of mask_phases: zero unless the pattern entry is 0 or 1
MaskTerm(call, amb, on, off, my, mx) ==
    Only({IF call.pattern[my][mx] = 0 THEN FieldTerm(off, phase)
          ELSE IF call.pattern[my][mx] = 1 THEN FieldTerm(on, phase)
          ELSE FieldZero : phase \in {Phase(call, amb, my, mx)}})

RECURSIVE SumMaskPhases(_, _, _, _, _)
SumMaskPhases(call, amb, on, off, S) ==
    IF S = {} THEN FieldZero
    ELSE Only({FieldAdd(MaskTerm(call, amb, on, off, q[1], q[2]),
                        SumMaskPhases(call, amb, on, off, S \ {q})) :
                 q \in {CHOOSE e \in S : TRUE}})

\* <<efields, sinc_efield_on, sinc_efield_off, diffraction_efield>>
calc_output_angle(call, bvec) ==
    Only({<<SumMaskPhases(call, amb, sinc_efield_on, sinc_efield_off, Mirrors(call.pattern)),
            sinc_efield_on, sinc_efield_off, diffraction_efield>> :
            <<amb, diffraction_efield, sinc_efield_on, sinc_efield_off>> \in
                {<<a_minus_b,
                   SumPhases(call, a_minus_b, Mirrors(call.pattern)),
                   EnvScale(Mul(call.wx, call.wy),
                            blaze_envelope(call.wavelength, call.gamma_on, call.wx,
                                           call.wy, a_minus_b, DefaultNVec)),
                   EnvScale(Mul(call.wx, call.wy),
                            blaze_envelope(call.wavelength, call.gamma_off, call.wx,
                                           call.wy, a_minus_b, DefaultNVec))>> :
                   a_minus_b \in {VSub(call.uvec_in, bvec)}}})

ResultIsNaN(r) == FieldIsNaN(r[1]) /\ IsNaN(r[2].c) /\ IsNaN(r[3].c) /\ CIsNaN(r[4])
ResultHasNaN(r) == FieldIsNaN(r[1]) \/ IsNaN(r[2].c) \/ IsNaN(r[3].c) \/ CIsNaN(r[4])


(***************************************************************************)
(* simulate_dmd: argument checks, dispatch, collection                     *)
(***************************************************************************)
pattern_is_binary(pattern) ==
    \A q \in Mirrors(pattern) : pattern[q[1]][q[2]] = 0 \/ pattern[q[1]][q[2]] = 1

\* mutant: only the x width is compared with the pitch
check_arguments_x_only(call) ==
    IF ~pattern_is_binary(call.pattern) THEN "TypeError"
    ELSE IF Lt(call.dx, call.wx) THEN "ValueError"
    ELSE "ok"

\* the checks at the head of simulate_dmd: the error raised, or "ok"
check_arguments(call) ==
    IF ~pattern_is_binary(call.pattern) THEN "TypeError"
    ELSE IF Lt(call.dx, call.wx) \/ Lt(call.dy, call.wy) THEN "ValueError"
    ELSE "ok"

\* uvecs_out is an array of shape (R, C, 3): a sequence of R rows of C vectors
output_shape(uvecs_out) == <<Len(uvecs_out), Len(uvecs_out[1])>>
NumDirs(uvecs_out) == Len(uvecs_out) * Len(uvecs_out[1])
\* np.reshape(uvecs_out, [np.prod(output_shape), 3]): row-major
bvecs_to_iterate(uvecs_out) ==
    LET C == output_shape(uvecs_out)[2]
    IN  [i \in 1..NumDirs(uvecs_out) |-> uvecs_out[((i - 1) \div C) + 1][((i - 1) % C) + 1]]

\* mutant: the list reshaped column by column
reshape_column_major(list, shape) ==
    [r \in 1..shape[1] |-> [c \in 1..shape[2] |-> list[(c - 1) * shape[1] + r]]]

\* np.asarray(list).reshape(output_shape): row-major
reshape(list, shape) ==
    [r \in 1..shape[1] |-> [c \in 1..shape[2] |-> list[(r - 1) * shape[2] + c]]]

\* mutant: a result is put at the first free place of the list
store_result_in_completion_order(list, i, r) ==
    LET k == CHOOSE n \in DOMAIN list : list[n] = <<>> /\ \A q \in 1..(n - 1) : list[q] # <<>>
    IN  [list EXCEPT ![k] = r]

\* joblib.Parallel returns the results in the order of the tasks given to it
store_result(list, i, r) == [list EXCEPT ![i] = r]

Column(list, n) == [i \in DOMAIN list |-> list[i][n]]

\* mutant: one NaN result turns every entry into NaN
unpack_results_poisoned(list, shape) ==
    LET nan == \E i \in DOMAIN list : ResultHasNaN(list[i])
    IN  [efields |-> reshape([i \in DOMAIN list |-> IF nan THEN FieldNaN ELSE list[i][1]], shape),
         sinc_efield_on |-> reshape([i \in DOMAIN list |-> IF nan THEN EnvNum(NaN) ELSE list[i][2]], shape),
         sinc_efield_off |-> reshape([i \in DOMAIN list |-> IF nan THEN EnvNum(NaN) ELSE list[i][3]], shape),
         diffraction_efield |-> reshape([i \in DOMAIN list |-> IF nan THEN CNaN ELSE list[i][4]], shape)]

\* zip(*results), then each list as an array of the output shape
unpack_results(list, shape) ==
    [efields |-> reshape(Column(list, 1), shape),
     sinc_efield_on |-> reshape(Column(list, 2), shape),
     sinc_efield_off |-> reshape(Column(list, 3), shape),
     diffraction_efield |-> reshape(Column(list, 4), shape)]

(***************************************************************************)
(* simulate_dmd as a call: check, dispatch one task per direction to the   *)
(* worker pool, collect.  The caller then calls again with one direction   *)
(* replaced.                                                               *)
(***************************************************************************)
MaxDirs == 4
MaxWorkers == 2

SimPatterns == {<<<<1, 0>>>>, <<<<1, 2>>>>, <<<<0>>, <<-1>>>>}
\* <<wx, wy>>; the pitch is 1 in both directions
SimWidths == {<<One, Rat(9, 10)>>, <<Rat(11, 10), Rat(9, 10)>>, <<Rat(9, 10), Rat(11, 10)>>}
SimGamma == Angle(Rat(3, 4), 0)
SimUvecIn == <<Rat(1, 3), Rat(2, 3), Rat(-2, 3)>>

\* the direction b with (a - b)_x = wavelength/dx * fx, (a - b)_y = wavelength/dy * fy
SampleDirection(a, wavelength, dx, dy, fx, fy) ==
    Only({<<bx, by, Sqrt(Sub(Sub(One, Sq(bx)), Sq(by)))>> :
            bx \in {Sub(a[1], Mul(Div(wavelength, dx), fx))},
            by \in {Sub(a[2], Mul(Div(wavelength, dy), fy))}})
NaNDirection == <<NaN, NaN, NaN>>

\* a grid of output directions, a quarter of a diffraction order apart
UvecsOutGrid(R, C) ==
    [r \in 1..R |-> [c \in 1..C |->
        SampleDirection(SimUvecIn, Rat(1, 2), One, One, Rat(c - 1, 4), Rat(r - 1, 4))]]
UvecsOutSet == {UvecsOutGrid(R, C) : <<R, C>> \in {q \in (1..2) \X (1..MaxDirs) :
                                                      q[1] * q[2] <= MaxDirs}}
Replacements == {NaNDirection,
                 SampleDirection(SimUvecIn, Rat(1, 2), One, One, Rat(1, 8), Rat(3, 8))}

InitSim ==
    /\ args \in [pattern : SimPatterns, wavelength : {Rat(1, 2)},
                 gamma_on : {SimGamma}, gamma_off : {NegAngle(SimGamma)},
                 dx : {One}, dy : {One},
                 wx : {w[1] : w \in SimWidths}, wy : {w[2] : w \in SimWidths},
                 uvec_in : {SimUvecIn}, uvecs_out : UvecsOutSet, zshifts : {None}]
    /\ <<args.wx, args.wy>> \in SimWidths
    /\ step = "call"
    /\ res = <<>>
    /\ NoSimulation

\* lines 88-98: raise, or go on to the dispatch of the tasks
CheckArguments ==
    /\ step = "call"
    /\ IF check_arguments(args) # "ok"
       THEN /\ step' = "raised"
            /\ res' = <<check_arguments(args)>>
            /\ UNCHANGED <<tasks, results>>
       ELSE /\ step' = "dispatched"
            /\ tasks' = [i \in 1..NumDirs(args.uvecs_out) |-> "pending"]
            /\ results' = [i \in 1..NumDirs(args.uvecs_out) |-> <<>>]
            /\ res' = <<>>
    /\ UNCHANGED <<args, prev>>

\* a free worker takes any task not yet started
TaskStart(i) ==
    /\ step = "dispatched"
    /\ i \in DOMAIN tasks
    /\ tasks[i] = "pending"
    /\ Cardinality({n \in DOMAIN tasks : tasks[n] = "running"}) < MaxWorkers
    /\ tasks' = [tasks EXCEPT ![i] = "running"]
    /\ UNCHANGED <<args, step, res, results, prev>>

\* any running task completes: calc_output_angle of its direction
TaskFinish(i) ==
    /\ step = "dispatched"
    /\ i \in DOMAIN tasks
    /\ tasks[i] = "running"
    /\ tasks' = [tasks EXCEPT ![i] = "done"]
    /\ results' = store_result(results, i,
                               calc_output_angle(args, bvecs_to_iterate(args.uvecs_out)[i]))
    /\ UNCHANGED <<args, step, res, prev>>

\* lines 132-139: all tasks done, unpack and return
Collect ==
    /\ step = "dispatched"
    /\ \A i \in DOMAIN tasks : tasks[i] = "done"
    /\ res' = unpack_results(results, output_shape(args.uvecs_out))
    /\ step' = "returned"
    /\ UNCHANGED <<args, tasks, results, prev>>

\* the caller calls once more, direction j of the flattened array replaced by d
CallAgain(j, d) ==
    /\ step = "returned"
    /\ prev = <<>>
    /\ j \in 1..NumDirs(args.uvecs_out)
    /\ prev' = [ret |-> res, j |-> j, d |-> d]
    /\ args' = [args EXCEPT !.uvecs_out =
                   reshape([bvecs_to_iterate(args.uvecs_out) EXCEPT ![j] = d],
                           output_shape(args.uvecs_out))]
    /\ step' = "call"
    /\ res' = <<>>
    /\ tasks' = <<>>
    /\ results' = <<>>

NextSim ==
    \/ CheckArguments
    \/ \E i \in 1..MaxDirs : TaskStart(i)
    \/ \E i \in 1..MaxDirs : TaskFinish(i)
    \/ Collect
    \/ \E j \in 1..MaxDirs, d \in Replacements : CallAgain(j, d)
SpecSim == InitSim /\ [][NextSim]_vars

\* the arrays a call returned, entry (r, c) of each
ReturnedAt(ret, r, c) ==
    <<ret.efields[r][c], ret.sinc_efield_on[r][c], ret.sinc_efield_off[r][c],
      ret.diffraction_efield[r][c]>>
ReturnedShapeIs(ret, shape) ==
    \A name \in {"efields", "sinc_efield_on", "sinc_efield_off", "diffraction_efield"} :
        /\ Len(ret[name]) = shape[1]
        /\ \A r \in 1..shape[1] : Len(ret[name][r]) = shape[2]
Violated(call) ==
    \/ \E q \in Mirrors(call.pattern) : call.pattern[q[1]][q[2]] \notin {0, 1}
    \/ Sign(Sub(call.wx, call.dx)) > 0
    \/ Sign(Sub(call.wy, call.dy)) > 0

\* C1: simulate_dmd raises before any task is dispatched whenever the pattern
\* has an entry other than 0 or 1, or wx > dx, or wy > dy, and then computes
\* and returns no field value; otherwise the checks raise nothing and the call
\* goes on to the computation.
C1_Preconditions ==
    step # "call" =>
        IF Violated(args)
        THEN /\ step = "raised"
             /\ res \in {<<"TypeError">>, <<"ValueError">>}
             /\ tasks = <<>>
             /\ results = <<>>
        ELSE /\ step \in {"dispatched", "returned"}
             /\ Len(tasks) = NumDirs(args.uvecs_out)

\* a call refused for its widths alone, with a binary pattern
C1_Witness ==
    /\ step = "raised"
    /\ res = <<"ValueError">>
    /\ pattern_is_binary(args.pattern)
    /\ Sign(Sub(args.wy, args.dy)) > 0
    /\ tasks = <<>>

\* C2: whatever the order in which the tasks start and complete, the entry of
\* each returned array at the i-th place in row-major order is the result
\* of the i-th direction of uvecs_out, there are exactly N results, and the
\* arrays have the shape uvecs_out.shape[:-1].
C2_OrderPreserved ==
    /\ step = "dispatched" =>
          /\ Len(results) = NumDirs(args.uvecs_out)
          /\ \A r \in 1..Len(args.uvecs_out) : \A c \in 1..Len(args.uvecs_out[r]) :
                LET i == (r - 1) * Len(args.uvecs_out[r]) + c
                IN  results[i] # <<>> =>
                        results[i] = calc_output_angle(args, args.uvecs_out[r][c])
    /\ step = "returned" =>
          /\ ReturnedShapeIs(res, <<Len(args.uvecs_out), Len(args.uvecs_out[1])>>)
          /\ \A r \in 1..Len(args.uvecs_out) : \A c \in 1..Len(args.uvecs_out[r]) :
                ReturnedAt(res, r, c) = calc_output_angle(args, args.uvecs_out[r][c])

\* in a 2 x 2 batch the task of place 3 (row 2, column 1) has completed before
\* the task of place 2, and its result is stored at place 3
C2_Witness ==
    /\ step = "dispatched"
    /\ output_shape(args.uvecs_out) = <<2, 2>>
    /\ tasks[2] # "done" /\ tasks[3] = "done"
    /\ results[3] = calc_output_angle(args, args.uvecs_out[2][1])
    /\ results[3] # calc_output_angle(args, args.uvecs_out[1][2])

\* C3: two calls that differ only in direction j return the same values at
\* every other index; a NaN direction gives NaN at its own index only, and the
\* call still returns all N results.
C3_SiblingsIndependent ==
    (step = "returned" /\ prev # <<>>) =>
        LET shape == <<Len(args.uvecs_out), Len(args.uvecs_out[1])>>
        IN  /\ ReturnedShapeIs(res, shape)
            /\ \A r \in 1..shape[1] : \A c \in 1..shape[2] :
                  IF (r - 1) * shape[2] + c # prev.j
                  THEN /\ ReturnedAt(res, r, c) = ReturnedAt(prev.ret, r, c)
                       /\ ~ResultHasNaN(ReturnedAt(res, r, c))
                  ELSE VIsNaN(prev.d) => ResultIsNaN(ReturnedAt(res, r, c))

\* a second call with the NaN direction among three others
C3_Witness ==
    /\ step = "returned"
    /\ prev # <<>>
    /\ prev.d = NaNDirection
    /\ NumDirs(args.uvecs_out) = 4
    /\ \E r \in 1..Len(args.uvecs_out) : \E c \in 1..Len(args.uvecs_out[r]) :
          /\ ResultIsNaN(ReturnedAt(res, r, c))
          /\ ~ResultHasNaN(ReturnedAt(prev.ret, r, c))


(***************************************************************************)
(* simulate_dmd_dft and interpolate_dmd_data.  Arrays are sequences of     *)
(* rows, counted from 1 here and from 0 in the source.                     *)
(***************************************************************************)
\* np.fft.fftfreq(n): 0, 1, ..., (n-1)//2, -(n//2), ..., -1, each over n
fftfreq(n) ==
    [i \in 1..n |-> IF i - 1 <= (n - 1) \div 2 THEN Rat(i - 1, n) ELSE Rat(i - 1 - n, n)]
\* np.roll(x, shift)
roll(x, shift) == [k \in 1..Len(x) |-> x[((k - 1 - shift) % Len(x)) + 1]]
\* np.fft.fftshift, np.fft.ifftshift along one axis
fftshift(x) == roll(x, Len(x) \div 2)
ifftshift(x) == roll(x, -(Len(x) \div 2))
\* the same along both axes of a two-dimensional array
fftshift2(a) == fftshift([y \in 1..Len(a) |-> fftshift(a[y])])
ifftshift2(a) == ifftshift([y \in 1..Len(a) |-> ifftshift(a[y])])

\* sum over the entries S of a of a[jy][jx] * exp(-2 pi i (jy*ly/ny + jx*lx/nx))
RECURSIVE Fft2Sum(_, _, _, _)
Fft2Sum(a, ly, lx, S) ==
    IF S = {} THEN CZero
    ELSE Only({CSumNaN(CScale(a[q[1]][q[2]],
                              CExpTurn(Neg(Add(Rat((q[1] - 1) * (ly - 1), Len(a)),
                                               Rat((q[2] - 1) * (lx - 1), Len(a[1])))))),
                       Fft2Sum(a, ly, lx, S \ {q})) :
                 q \in {CHOOSE e \in S : TRUE}})
\* np.fft.fft2 of a real array
fft2(a) ==
    [ly \in 1..Len(a) |-> [lx \in 1..Len(a[1]) |->
        Fft2Sum(a, ly, lx, (1..Len(a)) \X (1..Len(a[1])))]]

\* pattern * efield_profile and (1 - pattern) * efield_profile
Illuminated(pattern, efield_profile) ==
    [y \in 1..Len(pattern) |-> [x \in 1..Len(pattern[1]) |->
        Mul(IntN(pattern[y][x]), efield_profile[y][x])]]
Complement(pattern) ==
    [y \in 1..Len(pattern) |-> [x \in 1..Len(pattern[1]) |-> 1 - pattern[y][x]]]

\* the output direction of the DFT frequency (fx, fy) about the order
DftDirection(call, order, fx, fy) ==
    SampleDirection(call.uvec_in, call.wavelength, call.dx, call.dy,
                    Add(IntN(order[1]), fx), Add(IntN(order[2]), fy))

\* [efields, pattern_dft, pattern_complement_dft, sinc_efield_on, sinc_efield_off, bvec]
simulate_dmd_dft(call, order) ==
    Only({[efields |->
              [y \in 1..PatternNy(call.pattern) |-> [x \in 1..PatternNx(call.pattern) |->
                  FieldAdd(FieldTerm(sinc_efield_on[y][x], pattern_dft[y][x]),
                           FieldTerm(sinc_efield_off[y][x], pattern_complement_dft[y][x]))]],
           pattern_dft |-> pattern_dft,
           pattern_complement_dft |-> pattern_complement_dft,
           sinc_efield_on |-> sinc_efield_on,
           sinc_efield_off |-> sinc_efield_off,
           bvec |-> bvec] :
            <<pattern_dft, pattern_complement_dft, sinc_efield_on, sinc_efield_off, bvec>> \in
                {<<fftshift2(fft2(ifftshift2(Illuminated(call.pattern, call.efield_profile)))),
                   fftshift2(fft2(ifftshift2(Illuminated(Complement(call.pattern),
                                                         call.efield_profile)))),
                   [y \in DOMAIN b |-> [x \in DOMAIN b[y] |->
                       EnvScale(Mul(call.wx, call.wy),
                                blaze_envelope(call.wavelength, call.gamma_on, call.wx,
                                               call.wy, VSub(call.uvec_in, b[y][x]),
                                               DefaultNVec))]],
                   [y \in DOMAIN b |-> [x \in DOMAIN b[y] |->
                       EnvScale(Mul(call.wx, call.wy),
                                blaze_envelope(call.wavelength, call.gamma_off, call.wx,
                                               call.wy, VSub(call.uvec_in, b[y][x]),
                                               DefaultNVec))]],
                   b>> :
                   b \in {[y \in 1..PatternNy(call.pattern) |->
                            [x \in 1..PatternNx(call.pattern) |->
                               DftDirection(call, order,
                                            fftshift(fftfreq(PatternNx(call.pattern)))[x],
                                            fftshift(fftfreq(PatternNy(call.pattern)))[y])]]}}})

\* np.sin(np.pi * x), for x a multiple of 1/4
SinPi(x) == SinTurn(Div(x, Two))

\* mutant: only the argument 0 is replaced by 1
InterpVal_zero_only(arg, n) ==
    Only({IF a = Zero THEN COne
          ELSE CScale(Div(Mul(Inv(IntN(n)), SinPi(Mul(a, IntN(n)))), SinPi(a)),
                      CExpTurn(Div(Mul(a, IntN(n - 1)), Two))) : a \in {arg}})

\* 1/n * np.sin(np.pi*arg*n) / np.sin(np.pi*arg) * np.exp(np.pi*1j*arg*(n - 1)),
\* and 1 where np.mod(np.round(arg, 14), 1) == 0
InterpVal(arg, n) ==
    Only({IF IsInteger(a) THEN COne
          ELSE CScale(Div(Mul(Inv(IntN(n)), SinPi(Mul(a, IntN(n)))), SinPi(a)),
                      CExpTurn(Div(Mul(a, IntN(n - 1)), Two))) : a \in {arg}})
\* mutant: the frequencies in the order of fftfreq, without the fftshift
interp_x_unshifted(call, amb_x) ==
    Only({[k \in 1..nx |->
             InterpVal(Div(Sub(Mul(fftfreq(nx)[k], IntN(nx)),
                               Mul(Div(Mul(IntN(nx), call.dx), call.wavelength), a)),
                           IntN(nx)), nx)] :
            nx \in {PatternNx(call.pattern)}, a \in {amb_x}})

\* arg = (fxs * nx - nx * dx / wavelength * amb_x) / nx, one value for each frequency
interp_x(call, amb_x) ==
    Only({[k \in 1..nx |->
             InterpVal(Div(Sub(Mul(fftshift(fftfreq(nx))[k], IntN(nx)),
                               Mul(Div(Mul(IntN(nx), call.dx), call.wavelength), a)),
                           IntN(nx)), nx)] :
            nx \in {PatternNx(call.pattern)}, a \in {amb_x}})
interp_y(call, amb_y) ==
    Only({[k \in 1..ny |->
             InterpVal(Div(Sub(Mul(fftshift(fftfreq(ny))[k], IntN(ny)),
                               Mul(Div(Mul(IntN(ny), call.dy), call.wavelength), a)),
                           IntN(ny)), ny)] :
            ny \in {PatternNy(call.pattern)}, a \in {amb_y}})

\* np.sum((pattern_dft * on + pattern_dft_complement * off) * interp_x * interp_y)
RECURSIVE InterpSum(_, _, _, _, _, _)
InterpSum(dft, on, off, ix, iy, S) ==
    IF S = {} THEN FieldZero
    ELSE Only({FieldAdd(
                   FieldAdd(FieldTerm(on, CMul(CMul(dft.pattern_dft[q[1]][q[2]], ix[q[2]]),
                                               iy[q[1]])),
                            FieldTerm(off, CMul(CMul(dft.pattern_complement_dft[q[1]][q[2]],
                                                     ix[q[2]]), iy[q[1]]))),
                   InterpSum(dft, on, off, ix, iy, S \ {q})) :
                 q \in {CHOOSE e \in S : TRUE}})

\* interpolate_dmd_data for one direction bvec of bvecs_interp: calc(ii)
interpolate_dmd_data(call, order, bvec) ==
    Only({InterpSum(dft, on, off, ix, iy, Mirrors(call.pattern)) :
            <<dft, on, off, ix, iy>> \in
                {<<simulate_dmd_dft(call, order),
                   EnvScale(Mul(call.wx, call.wy),
                            blaze_envelope(call.wavelength, call.gamma_on, call.wx, call.wy,
                                           amb, DefaultNVec)),
                   EnvScale(Mul(call.wx, call.wy),
                            blaze_envelope(call.wavelength, call.gamma_off, call.wx, call.wy,
                                           amb, DefaultNVec)),
                   interp_x(call, amb[1]), interp_y(call, amb[2])>> :
                   amb \in {VSub(call.uvec_in, bvec)}}})

(***************************************************************************)
(* The two simulators on the same direction: simulate_dmd on a batch of    *)
(* one direction, then simulate_dmd_dft with interpolate_dmd_data, for a   *)
(* binary pattern on a flat device under a uniform illumination profile.   *)
(***************************************************************************)
MaxLogSize == 1
MaxMirrors == 4
MaxQuarter == 2

RECURSIVE Pow2(_)
Pow2(e) == IF e = 0 THEN 1 ELSE 2 * Pow2(e - 1)
XvalShapes == {q \in {Pow2(e) : e \in 0..MaxLogSize} \X {Pow2(e) : e \in 0..MaxLogSize} :
                 q[1] * q[2] <= MaxMirrors}
XvalPatterns == UNION {[1..q[1] -> [1..q[2] -> {0, 1}]] : q \in XvalShapes}
UniformProfile(pattern) ==
    [y \in 1..Len(pattern) |-> [x \in 1..Len(pattern[1]) |-> One]]
\* directions a quarter of a diffraction order apart, from the zero order on
XvalDirections ==
    {SampleDirection(SimUvecIn, Rat(1, 2), One, One, Rat(jx, 4), Rat(jy, 4)) :
        jx \in 0..MaxQuarter, jy \in 0..MaxQuarter}

InitXval ==
    /\ args \in {[pattern |-> p, efield_profile |-> UniformProfile(p),
                  wavelength |-> Rat(1, 2), gamma_on |-> SimGamma,
                  gamma_off |-> NegAngle(SimGamma), dx |-> One, dy |-> One,
                  wx |-> Rat(9, 10), wy |-> Rat(9, 10), uvec_in |-> SimUvecIn,
                  zshifts |-> None, order |-> <<0, 0>>, bvec |-> b] :
                    p \in XvalPatterns, b \in XvalDirections}
    /\ step = "start"
    /\ res = <<>>
    /\ NoSimulation

\* simulate_dmd(pattern, ..., uvecs_out = [bvec]): the efields of the one direction
SimulateDmd ==
    /\ step = "start"
    /\ check_arguments(args) = "ok"
    /\ res' = <<calc_output_angle(args, args.bvec)[1]>>
    /\ step' = "simulated"
    /\ UNCHANGED <<args, tasks, results, prev>>

\* interpolate_dmd_data(pattern, ..., order, bvecs_interp = [bvec])
InterpolateDmdData ==
    /\ step = "simulated"
    /\ res' = Append(res, interpolate_dmd_data(args, args.order, args.bvec))
    /\ step' = "interpolated"
    /\ UNCHANGED <<args, tasks, results, prev>>

NextXval == SimulateDmd \/ InterpolateDmdData
SpecXval == InitXval /\ [][NextXval]_vars

\* C4: for every binary pattern on a flat device with a uniform profile and
\* every sampled direction, the field of simulate_dmd_dft followed by
\* interpolate_dmd_data equals the efields of the brute-force simulate_dmd
\* (the arithmetic is exact here, so agreement within 1e-6 is equality).
C4_PathsAgree ==
    step = "interpolated" => res[2] = res[1]

(***************************************************************************)
(* Input domains                                                           *)
(***************************************************************************)
MaxCoord == 1
MaxH == 3

\* vectors with small integer components
IntVecs == {<<IntN(x), IntN(y), IntN(z)>> : x \in -MaxCoord..MaxCoord,
                                             y \in -MaxCoord..MaxCoord,
                                             z \in -MaxCoord..MaxCoord}

\* mirror angles with rational cosine and sine: tan(gamma) = 2h/(1 - h^2) for
\* the half-angle tangent h = n/m, in both branches and of both signs
GammaTans == {Div(Mul(Two, Rat(n, m)), Sub(One, Sq(Rat(n, m)))) :
                  n \in 0..(MaxH - 1), m \in 1..MaxH} 
GammaSet == {Angle(t, k) : t \in {x \in GammaTans : ~IsNaN(x)}, k \in {0, 1}}
              \cup {Angle(Neg(t), 0) : t \in {x \in GammaTans : ~IsNaN(x)}}

(***************************************************************************)
(* xyz2mirror / mirror2xyz applied one after the other, in both orders     *)
(***************************************************************************)
InitMirror ==
    /\ args \in [v : IntVecs, gamma : GammaSet]
    /\ step = "start"
    /\ res = <<>>
    /\ NoSimulation

Xyz2Mirror ==
    /\ step = "start"
    /\ res' = xyz2mirror(args.v[1], args.v[2], args.v[3], args.gamma)
    /\ step' = "mirror"
    /\ UNCHANGED <<args, tasks, results, prev>>

Mirror2XyzBack ==
    /\ step = "mirror"
    /\ res' = mirror2xyz(res[1], res[2], res[3], args.gamma)
    /\ step' = "xyz_back"
    /\ UNCHANGED <<args, tasks, results, prev>>

Mirror2Xyz ==
    /\ step = "start"
    /\ res' = mirror2xyz(args.v[1], args.v[2], args.v[3], args.gamma)
    /\ step' = "xyz"
    /\ UNCHANGED <<args, tasks, results, prev>>

Xyz2MirrorBack ==
    /\ step = "xyz"
    /\ res' = xyz2mirror(res[1], res[2], res[3], args.gamma)
    /\ step' = "mirror_back"
    /\ UNCHANGED <<args, tasks, results, prev>>

NextMirror == Xyz2Mirror \/ Mirror2XyzBack \/ Mirror2Xyz \/ Xyz2MirrorBack
SpecMirror == InitMirror /\ [][NextMirror]_vars

\* C10: mirror2xyz is the exact inverse of xyz2mirror at the same gamma:
\* mirror2xyz(xyz2mirror(v, gamma), gamma) = v and
\* xyz2mirror(mirror2xyz(v, gamma), gamma) = v, for every gamma and every v.
C10_MirrorRoundTrip ==
    /\ step = "xyz_back" => res = args.v
    /\ step = "mirror_back" => res = args.v

\* a round trip through the mirror frame of a vector that the transform moves,
\* at a non-zero mirror angle
C10_Witness ==
    /\ step = "xyz_back"
    /\ res = args.v
    /\ args.gamma.t # Zero
    /\ xyz2mirror(args.v[1], args.v[2], args.v[3], args.gamma) # args.v
    /\ args.v[1] # args.v[2]
    /\ args.v[3] # Zero

(***************************************************************************)
(* get_unit_vector followed by uvector2txty                                *)
(***************************************************************************)
MaxTan == 2

AngleSet == {Angle(Rat(n, d), k) : n \in -MaxTan..MaxTan, d \in 1..MaxTan, k \in {0, 1}}
Modes == {"in", "out", "sideways"}

InitAngles ==
    /\ args \in [tx : AngleSet, ty : AngleSet, mode : Modes]
    /\ step = "start"
    /\ res = <<>>
    /\ NoSimulation

GetUnitVector ==
    /\ step = "start"
    /\ res' = get_unit_vector(args.tx, args.ty, args.mode)
    /\ step' = IF Len(res') = 3 THEN "uvec" ELSE "raised"
    /\ UNCHANGED <<args, tasks, results, prev>>

Uvector2TxTy ==
    /\ step = "uvec"
    /\ res' = uvector2txty(res[1], res[2], res[3])
    /\ step' = "angles"
    /\ UNCHANGED <<args, tasks, results, prev>>

NextAngles == GetUnitVector \/ Uvector2TxTy
SpecAngles == InitAngles /\ [][NextAngles]_vars

InsideRange(angle) == angle.k = 0

\* C9: for (tx, ty) strictly inside (-pi/2, pi/2) and both modes,
\* uvector2txty(get_unit_vector(tx, ty, mode)) = (tx, ty).
C9_AngleRoundTrip ==
    (step = "angles" /\ InsideRange(args.tx) /\ InsideRange(args.ty))
        => res = <<args.tx, args.ty>>

\* an incoming vector (negative z) of two non-zero, different angles, recovered
C9_Witness ==
    /\ step = "angles"
    /\ args.mode = "in"
    /\ InsideRange(args.tx) /\ InsideRange(args.ty)
    /\ args.tx.t # Zero /\ args.ty.t # Zero /\ args.tx # args.ty
    /\ res = <<args.tx, args.ty>>

(***************************************************************************)
(* Unit vectors with rational components                                   *)
(***************************************************************************)
MaxDen == 3

UnitVecs ==
    {<<Rat(x, n), Rat(y, n), Rat(z, n)>> :
        <<x, y, z, n>> \in {q \in (-MaxDen..MaxDen) \X (-MaxDen..MaxDen)
                                  \X (-MaxDen..MaxDen) \X (1..MaxDen) :
                               /\ IAbs(q[1]) <= q[4] /\ IAbs(q[2]) <= q[4]
                               /\ IAbs(q[3]) <= q[4]
                               /\ q[1] * q[1] + q[2] * q[2] + q[3] * q[3] = q[4] * q[4]}}
InVecs == {v \in UnitVecs : Sign(v[3]) < 0}
OutVecs == {v \in UnitVecs : Sign(v[3]) > 0}

(***************************************************************************)
(* solve_blaze_output followed by blaze_envelope                           *)
(***************************************************************************)
Widths == {Rat(9, 10), One}
Wavelengths == {Rat(1, 2), Rat(1, 3)}

InitBlaze ==
    /\ args \in [a : InVecs, gamma : GammaSet, wx : Widths, wy : Widths,
                 wavelength : Wavelengths]
    /\ step = "start"
    /\ res = <<>>
    /\ NoSimulation

SolveBlazeOutput ==
    /\ step = "start"
    /\ res' = <<solve_blaze_output(args.a, args.gamma)>>
    /\ step' = "blaze"
    /\ UNCHANGED <<args, tasks, results, prev>>

\* the envelope of the mirror state the output was solved for
BlazeEnvelope ==
    /\ step = "blaze"
    /\ res' = Append(res, blaze_envelope(args.wavelength, args.gamma, args.wx, args.wy,
                                         VSub(args.a, res[1]), DefaultNVec))
    /\ step' = "envelope"
    /\ UNCHANGED <<args, tasks, results, prev>>

\* the envelope of the opposite mirror state in the same direction
BlazeEnvelopeOpposite ==
    /\ step = "blaze"
    /\ res' = Append(res, blaze_envelope(args.wavelength, NegAngle(args.gamma), args.wx,
                                         args.wy, VSub(args.a, res[1]), DefaultNVec))
    /\ step' = "envelope_opposite"
    /\ UNCHANGED <<args, tasks, results, prev>>

NextBlaze == SolveBlazeOutput \/ BlazeEnvelope \/ BlazeEnvelopeOpposite
SpecBlaze == InitBlaze /\ [][NextBlaze]_vars

\* C8 (as stated): blaze_envelope at a - solve_blaze_output(a, gamma) equals wx*wy.
C8_EnvelopeIsWxWy ==
    step = "envelope" => res[2] = EnvNum(Mul(args.wx, args.wy))

\* C8 (amended): blaze_envelope at a - solve_blaze_output(a, gamma) equals 1,
\* whatever the mirror widths; the factor wx*wy is applied by the callers.
C8_EnvelopeIsOne ==
    step = "envelope" => res[2] = EnvNum(One)

\* the envelope evaluated at the blaze solution of a tilted mirror whose widths
\* are below 1, for an input that the mirror deflects
C8_Witness ==
    /\ step = "envelope"
    /\ args.gamma.t # Zero
    /\ args.wx # One /\ args.wy # One
    /\ res[1] # <<args.a[1], args.a[2], Neg(args.a[3])>>
    /\ res[2] = EnvNum(One)

(***************************************************************************)
(* solve_diffraction_output / solve_diffraction_input over a batch         *)
(***************************************************************************)
MaxBatch == 2
MaxOrder == 1

DiffVecs == {v \in InVecs : Sign(v[1]) >= 0 /\ Sign(v[2]) >= 0}
              \cup {<<Rat(2, 3), Rat(1, 3), Rat(2, 3)>>}
Batches == UNION {[1..n -> DiffVecs] : n \in 1..MaxBatch}
Orders == (-MaxOrder..MaxOrder) \X (-MaxOrder..MaxOrder)
Pitches == {<<One, One>>, <<One, Two>>}

InitDiff ==
    /\ args \in [uvecs : Batches, order : Orders, d : Pitches, wavelength : {Rat(1, 3)}]
    /\ step = "start"
    /\ res = <<>>
    /\ NoSimulation

NegOrder(order) == <<-order[1], -order[2]>>

SolveDiffractionOutput ==
    /\ step = "start"
    /\ res' = [i \in DOMAIN args.uvecs |->
                 solve_diffraction_output(args.uvecs[i], args.d[1], args.d[2],
                                          args.wavelength, args.order)]
    /\ step' = "output"
    /\ UNCHANGED <<args, tasks, results, prev>>

SolveDiffractionInput ==
    /\ step = "start"
    /\ res' = [i \in DOMAIN args.uvecs |->
                 solve_diffraction_input(args.uvecs[i], args.d[1], args.d[2],
                                         args.wavelength, args.order)]
    /\ step' = "input"
    /\ UNCHANGED <<args, tasks, results, prev>>

\* the output vectors fed back with the same order
SolveDiffractionInputBack ==
    /\ step = "output"
    /\ res' = [i \in DOMAIN res |->
                 solve_diffraction_input(res[i], args.d[1], args.d[2],
                                         args.wavelength, args.order)]
    /\ step' = "back_same_order"
    /\ UNCHANGED <<args, tasks, results, prev>>

\* the output vectors fed back with the negated order
SolveDiffractionInputBackNegated ==
    /\ step = "output"
    /\ res' = [i \in DOMAIN res |->
                 solve_diffraction_input(res[i], args.d[1], args.d[2],
                                         args.wavelength, NegOrder(args.order))]
    /\ step' = "back_negated_order"
    /\ UNCHANGED <<args, tasks, results, prev>>

NextDiff ==
    \/ SolveDiffractionOutput
    \/ SolveDiffractionInput
    \/ SolveDiffractionInputBack
    \/ SolveDiffractionInputBackNegated
SpecDiff == InitDiff /\ [][NextDiff]_vars

\* the grating equation, componentwise, as the claims state it
GratingOutX(i) == Sub(args.uvecs[i][1], Mul(Div(args.wavelength, args.d[1]), IntN(args.order[1])))
GratingOutY(i) == Sub(args.uvecs[i][2], Mul(Div(args.wavelength, args.d[2]), IntN(args.order[2])))
GratingInX(i) == Add(args.uvecs[i][1], Mul(Div(args.wavelength, args.d[1]), IntN(args.order[1])))
GratingInY(i) == Add(args.uvecs[i][2], Mul(Div(args.wavelength, args.d[2]), IntN(args.order[2])))
Evanescent(x, y) == Sign(Sub(Sub(One, Sq(x)), Sq(y))) < 0
ForwardInfeasible(i) == Evanescent(GratingOutX(i), GratingOutY(i))

\* C5: solve_diffraction_output gives bx = ax - wavelength/dx*order_x,
\* by = ay - wavelength/dy*order_y; where 1 - bx^2 - by^2 < 0 all three
\* components are NaN; elsewhere the output is a real unit vector with
\* bz = +sqrt(1 - bx^2 - by^2) >= 0; each entry of a batch depends on its own
\* input only.
C5_DiffractionOutput ==
    step = "output" =>
        /\ DOMAIN res = DOMAIN args.uvecs
        /\ \A i \in DOMAIN res :
             IF ForwardInfeasible(i)
             THEN VAllNaN(res[i])
             ELSE /\ ~VIsNaN(res[i])
                  /\ res[i][1] = GratingOutX(i)
                  /\ res[i][2] = GratingOutY(i)
                  /\ Sign(res[i][3]) >= 0
                  /\ Sq(res[i][3]) = Sub(Sub(One, Sq(GratingOutX(i))), Sq(GratingOutY(i)))
                  /\ NormSq(res[i]) = One

\* a batch holding an infeasible entry next to a feasible one of a non-zero order
C5_Witness ==
    /\ step = "output"
    /\ args.order[1] # 0
    /\ \E i, j \in DOMAIN res :
         /\ ForwardInfeasible(i) /\ VAllNaN(res[i])
         /\ ~ForwardInfeasible(j) /\ NormSq(res[j]) = One /\ Sign(res[j][3]) > 0

\* C6: solve_diffraction_input returns a vector whose three components are all
\* NaN wherever 1 - ax^2 - ay^2 < 0.
C6_DiffractionInputFlagged ==
    step = "input" =>
        \A i \in DOMAIN res :
            Evanescent(GratingInX(i), GratingInY(i)) => VAllNaN(res[i])

\* C7 (as stated): solve_diffraction_output with (nx, ny), then
\* solve_diffraction_input with (-nx, -ny), recovers a unit input vector of
\* negative z-component, or yields NaN when the forward step was infeasible.
C7_RoundTripNegatedOrder ==
    step = "back_negated_order" =>
        \A i \in DOMAIN res :
            Sign(args.uvecs[i][3]) < 0 =>
                IF ForwardInfeasible(i) THEN VAllNaN(res[i]) ELSE res[i] = args.uvecs[i]

\* C7 (amended): solve_diffraction_output with (nx, ny), then
\* solve_diffraction_input with the same order (nx, ny), recovers a unit input
\* vector of negative z-component, or yields NaN when the forward step was
\* infeasible.
C7_RoundTripSameOrder ==
    step = "back_same_order" =>
        \A i \in DOMAIN res :
            Sign(args.uvecs[i][3]) < 0 =>
                IF ForwardInfeasible(i) THEN VAllNaN(res[i]) ELSE res[i] = args.uvecs[i]

\* a vector recovered through a non-zero order next to one lost to an
\* infeasible forward step
C7_Witness ==
    /\ step = "back_same_order"
    /\ args.order[1] # 0 /\ args.order[2] # 0
    /\ \E i, j \in DOMAIN res :
         /\ Sign(args.uvecs[i][3]) < 0 /\ ~ForwardInfeasible(i) /\ res[i] = args.uvecs[i]
         /\ Sign(args.uvecs[j][3]) < 0 /\ ForwardInfeasible(j) /\ VAllNaN(res[j])

(***************************************************************************)
(* xyz2mpz / mpz2xyz.  The components are numpy arrays: an array is an     *)
(* index into the sequence of array values that exist, and np.array makes  *)
(* a new one.                                                              *)
(***************************************************************************)
\* np.array(value): a new array holding the value
np_array(arrays, value) == Append(arrays, value)
NewArray(arrays) == Len(arrays) + 1

\* mutant: vz returned as the argument itself, not as a copy
xyz2mpz_aliasing_vz(arrays, vx, vy, vz) ==
    Only({[arrays |-> np_array(np_array(arrays, Div(Add(x, y), Sqrt2)),
                               Div(Sub(x, y), Sqrt2)),
           out |-> <<NewArray(arrays) + 1, NewArray(arrays), vz>>] :
          x \in {arrays[vx]}, y \in {arrays[vy]}})

\* vp, vm and vz are made in this order; (vm, vp, vz) is returned
xyz2mpz(arrays, vx, vy, vz) ==
    Only({[arrays |-> np_array(np_array(np_array(arrays, Div(Add(x, y), Sqrt2)),
                                        Div(Sub(x, y), Sqrt2)), z),
           out |-> <<NewArray(arrays) + 1, NewArray(arrays), NewArray(arrays) + 2>>] :
          x \in {arrays[vx]}, y \in {arrays[vy]}, z \in {arrays[vz]}})

\* mutant: vy with the sign of the difference swapped
mpz2xyz_swapped_difference(arrays, vm, vp, vz) ==
    Only({[arrays |-> np_array(np_array(np_array(arrays, Div(Add(m, p), Sqrt2)),
                                        Div(Sub(m, p), Sqrt2)), z),
           out |-> <<NewArray(arrays), NewArray(arrays) + 1, NewArray(arrays) + 2>>] :
          m \in {arrays[vm]}, p \in {arrays[vp]}, z \in {arrays[vz]}})

mpz2xyz(arrays, vm, vp, vz) ==
    Only({[arrays |-> np_array(np_array(np_array(arrays, Div(Add(m, p), Sqrt2)),
                                        Div(Sub(p, m), Sqrt2)), z),
           out |-> <<NewArray(arrays), NewArray(arrays) + 1, NewArray(arrays) + 2>>] :
          m \in {arrays[vm]}, p \in {arrays[vp]}, z \in {arrays[vz]}})

\* the values of the arrays a call returned
ValuesOf(r) == <<r.arrays[r.out[1]], r.arrays[r.out[2]], r.arrays[r.out[3]]>>

\* the caller's three arrays are arrays 1, 2, 3
InitMpz ==
    /\ args \in [v : IntVecs]
    /\ step = "start"
    /\ res = [arrays |-> args.v, out |-> <<1, 2, 3>>]
    /\ NoSimulation

Xyz2Mpz ==
    /\ step = "start"
    /\ res' = xyz2mpz(res.arrays, 1, 2, 3)
    /\ step' = "mpz"
    /\ UNCHANGED <<args, tasks, results, prev>>

Mpz2XyzBack ==
    /\ step = "mpz"
    /\ res' = mpz2xyz(res.arrays, res.out[1], res.out[2], res.out[3])
    /\ step' = "xyz_back"
    /\ UNCHANGED <<args, tasks, results, prev>>

Mpz2Xyz ==
    /\ step = "start"
    /\ res' = mpz2xyz(res.arrays, 1, 2, 3)
    /\ step' = "xyz"
    /\ UNCHANGED <<args, tasks, results, prev>>

Xyz2MpzBack ==
    /\ step = "xyz"
    /\ res' = xyz2mpz(res.arrays, res.out[1], res.out[2], res.out[3])
    /\ step' = "mpz_back"
    /\ UNCHANGED <<args, tasks, results, prev>>

\* the caller writes into the z array it got back: vz[...] = value
WriteReturnedZ ==
    /\ step \in {"mpz", "xyz"}
    /\ \E value \in {Zero, One, Two} :
          /\ value # res.arrays[res.out[3]]
          /\ res' = [res EXCEPT !.arrays[res.out[3]] = value]
    /\ step' = "written"
    /\ UNCHANGED <<args, tasks, results, prev>>

NextMpz == Xyz2Mpz \/ Mpz2XyzBack \/ Mpz2Xyz \/ Xyz2MpzBack \/ WriteReturnedZ
SpecMpz == InitMpz /\ [][NextMpz]_vars

\* C11: mpz2xyz(xyz2mpz(v)) = v and xyz2mpz(mpz2xyz(v)) = v for every vector,
\* with m = (x - y)/sqrt(2) and p = (x + y)/sqrt(2), and the z-component is
\* passed through unchanged as a copy: writing into the returned z leaves the
\* argument as it was.
C11_MpzRoundTrip ==
    /\ step \in {"xyz_back", "mpz_back"} => ValuesOf(res) = args.v
    /\ step = "mpz" =>
          ValuesOf(res) = <<Div(Sub(args.v[1], args.v[2]), Sqrt2),
                            Div(Add(args.v[1], args.v[2]), Sqrt2), args.v[3]>>
    /\ step \in {"mpz", "xyz"} => res.out[3] # 3
    /\ SubSeq(res.arrays, 1, 3) = args.v

\* a round trip of a vector that xyz2mpz moves, and a write into a returned z
C11_Witness ==
    /\ step = "xyz_back"
    /\ ValuesOf(res) = args.v
    /\ args.v[1] # Zero /\ args.v[2] # Zero /\ args.v[1] # args.v[2]
    /\ args.v[3] # Zero
    /\ res.arrays[4] # args.v[2] /\ res.arrays[5] # args.v[1]

(***************************************************************************)
(* angle2xy followed by angle2pm                                           *)
(***************************************************************************)
angle2xy(tp, tm) ==
    Only({<<ArcTan(Div(Add(p, m), Sqrt2)), ArcTan(Div(Sub(p, m), Sqrt2))>> :
          p \in {Tan(tp)}, m \in {Tan(tm)}})

\* mutant: the pair returned in the order the body computes it, (tm, tp)
angle2pm_in_body_order(tx, ty) ==
    Only({<<ArcTan(Div(Sub(x, y), Sqrt2)), ArcTan(Div(Add(x, y), Sqrt2))>> :
          x \in {Tan(tx)}, y \in {Tan(ty)}})

\* returns (tp, tm)
angle2pm(tx, ty) ==
    Only({<<ArcTan(Div(Add(x, y), Sqrt2)), ArcTan(Div(Sub(x, y), Sqrt2))>> :
          x \in {Tan(tx)}, y \in {Tan(ty)}})

InitPm ==
    /\ args \in [tp : AngleSet, tm : AngleSet]
    /\ step = "start"
    /\ res = <<>>
    /\ NoSimulation

Angle2Xy ==
    /\ step = "start"
    /\ res' = angle2xy(args.tp, args.tm)
    /\ step' = "xy"
    /\ UNCHANGED <<args, tasks, results, prev>>

Angle2Pm ==
    /\ step = "xy"
    /\ res' = angle2pm(res[1], res[2])
    /\ step' = "pm"
    /\ UNCHANGED <<args, tasks, results, prev>>

NextPm == Angle2Xy \/ Angle2Pm
SpecPm == InitPm /\ [][NextPm]_vars

\* C12: for tp, tm strictly inside (-pi/2, pi/2), angle2pm(angle2xy(tp, tm))
\* returns (tp, tm), in this order.
C12_PmRoundTrip ==
    (step = "pm" /\ InsideRange(args.tp) /\ InsideRange(args.tm))
        => res = <<args.tp, args.tm>>

\* two different non-zero angles that angle2xy changes, recovered in order
C12_Witness ==
    /\ step = "pm"
    /\ InsideRange(args.tp) /\ InsideRange(args.tm)
    /\ args.tp.t # Zero /\ args.tm.t # Zero /\ args.tp # args.tm
    /\ angle2xy(args.tp, args.tm) # <<args.tp, args.tm>>
    /\ res = <<args.tp, args.tm>>

(***************************************************************************)
(* dmd_frqs2fourier_plane and dmd_frqs2axis_frqs.  The tolerance of the    *)
(* unit-norm check, 1e-12, is far below every non-zero difference of the   *)
(* exact numbers used here, so a vector argument is a record [v, off]: the *)
(* vector v * (1 + off * 1e-12 / 2), off an integer.  Its norm minus one   *)
(* is the pair <<d, k>>, d + k * 1e-12 / 2, with d = |v| - 1 and k the     *)
(* offset (k matters only when d = 0).                                     *)
(***************************************************************************)
MaxOff == 3

\* np.linalg.norm(vec) - 1
NormMinusOne(vec) ==
    Only({<<Sub(Sqrt(NormSq(u.v)), One), u.off>> : u \in {vec}})

\* np.abs(dev) > 1e-12 (False for NaN)
ExceedsTolerance(dev) ==
    Only({IF IsNaN(d[1]) THEN FALSE
          ELSE IF d[1] # Zero THEN TRUE
          ELSE IAbs(d[2]) > 2 : d \in {dev}})

\* mutant: only bvec is checked
unit_norm_checks_bvec_only(bvec, opt_axis_vec) ==
    IF ExceedsTolerance(NormMinusOne(bvec)) THEN "bvec was not a unit vector"
    ELSE "ok"

\* lines 604-608
unit_norm_checks(bvec, opt_axis_vec) ==
    IF ExceedsTolerance(NormMinusOne(bvec)) THEN "bvec was not a unit vector"
    ELSE IF ExceedsTolerance(NormMinusOne(opt_axis_vec)) THEN "pvec was not a unit vector"
    ELSE "ok"

freq2uvec(uvec_out_dc, fx, fy, wavelength, dx, dy) ==
    Only({<<bfx, bfy, Sqrt(Sub(Sub(One, Sq(bfx)), Sq(bfy)))>> :
          <<bfx, bfy>> \in {<<Add(uvec_out_dc[1], Mul(Div(wavelength, dx), fx)),
                              Add(uvec_out_dc[2], Mul(Div(wavelength, dy), fy))>>}})

\* np.cross
cross(a, b) ==
    Only({<<Sub(Mul(u[2], v[3]), Mul(u[3], v[2])),
            Sub(Mul(u[3], v[1]), Mul(u[1], v[3])),
            Sub(Mul(u[1], v[2]), Mul(u[2], v[1]))>> : u \in {a}, v \in {b}})

Dot(a, b) ==
    Only({Add(Add(Mul(u[1], v[1]), Mul(u[2], v[2])), Mul(u[3], v[3])) :
          u \in {a}, v \in {b}})

\* mutant: xb without the division by its norm
get_fourier_plane_basis_unnormalized(optical_axis_uvec) ==
    Only({<<xb, cross(o, xb)>> :
          <<o, xb>> \in {<<u, <<u[3], Zero, Neg(u[1])>>>> : u \in {optical_axis_uvec}}})

\* <<xb, yb>>
get_fourier_plane_basis(optical_axis_uvec) ==
    Only({<<xb, cross(o, xb)>> :
          <<o, xb>> \in {<<u, <<Div(u[3], n), Zero, Div(Neg(u[1]), n)>>>> :
                           <<u, n>> \in {<<w, Sqrt(Add(Sq(w[1]), Sq(w[3])))>> :
                                           w \in {optical_axis_uvec}}}})

\* lines 611-633, after the checks: <<bf_xp, bf_yp, bf_zp>>
fourier_plane_projection(fx, fy, bvec, opt_axis_vec, dx, dy, wavelength) ==
    Only({<<Dot(bf, basis[1]), Dot(bf, basis[2]), Dot(bf, o)>> :
          <<bf, basis, o>> \in {<<freq2uvec(bvec, fx, fy, wavelength, dx, dy),
                                  get_fourier_plane_basis(opt_axis_vec),
                                  opt_axis_vec>>}})

\* lines 574-577: <<fxs_oaxis, fys_oaxis>>
axis_frqs_of(bf, wavelength) ==
    Only({<<Div(b[1], w), Div(b[2], w)>> : b \in {bf}, w \in {wavelength}})

FpDirections ==
    {<<Zero, Zero, One>>, <<Rat(1, 3), Rat(2, 3), Rat(2, 3)>>,
     <<Rat(2, 3), Rat(-2, 3), Rat(1, 3)>>}
FpNonUnit ==
    {<<One, One, Zero>>, <<Half, Half, Half>>, <<Zero, Zero, Zero>>,
     <<NaN, NaN, NaN>>}
FpVectors ==
    {[v |-> d, off |-> k] : d \in FpDirections, k \in -MaxOff..MaxOff}
        \cup {[v |-> d, off |-> 0] : d \in FpNonUnit}
FpFrequencies == {<<Zero, Zero>>, <<Half, Zero>>, <<Rat(1, 4), Rat(-1, 4)>>}

InitFp ==
    /\ args \in [call : {"dmd_frqs2fourier_plane", "dmd_frqs2axis_frqs"},
                 f : FpFrequencies, bvec : FpVectors, opt_axis_vec : FpVectors,
                 dx : {One}, dy : {One}, wavelength : {Half}]
    /\ step = "call"
    /\ res = <<>>
    /\ NoSimulation

\* the two checks at the head of dmd_frqs2fourier_plane
CheckUnitNorms ==
    /\ step = "call"
    /\ \E outcome \in {unit_norm_checks(args.bvec, args.opt_axis_vec)} :
          IF outcome = "ok"
          THEN step' = "checked" /\ res' = <<>>
          ELSE step' = "raised" /\ res' = <<"ValueError", outcome>>
    /\ UNCHANGED <<args, tasks, results, prev>>

\* the rest of dmd_frqs2fourier_plane
ProjectOnFourierPlane ==
    /\ step = "checked"
    /\ res' = fourier_plane_projection(args.f[1], args.f[2], args.bvec.v,
                                       args.opt_axis_vec.v, args.dx, args.dy,
                                       args.wavelength)
    /\ step' = IF args.call = "dmd_frqs2fourier_plane" THEN "returned" ELSE "projected"
    /\ UNCHANGED <<args, tasks, results, prev>>

\* dmd_frqs2axis_frqs after its call of dmd_frqs2fourier_plane returned
AxisFrqs ==
    /\ step = "projected"
    /\ res' = axis_frqs_of(res, args.wavelength)
    /\ step' = "returned"
    /\ UNCHANGED <<args, tasks, results, prev>>

NextFp == CheckUnitNorms \/ ProjectOnFourierPlane \/ AxisFrqs
SpecFp == InitFp /\ [][NextFp]_vars

\* the norm of the vector differs from 1 by more than 1e-12
NotUnit(vec) ==
    \/ /\ ~IsNaN(NormSq(vec.v)) /\ NormSq(vec.v) # One
    \/ /\ NormSq(vec.v) = One /\ (vec.off > 2 \/ vec.off < -2)

\* C13: dmd_frqs2fourier_plane raises, before any projection is computed,
\* whenever the norm of bvec or of opt_axis_vec differs from 1 by more than
\* 1e-12, and raises no such error when both norms are within 1e-12 of 1;
\* dmd_frqs2axis_frqs fails in the same cases.
C13_UnitNormChecked ==
    /\ step # "call" =>
          (step = "raised" <=> (NotUnit(args.bvec) \/ NotUnit(args.opt_axis_vec)))
    /\ step = "raised" =>
          res \in {<<"ValueError", m>> : m \in {"bvec was not a unit vector",
                                               "pvec was not a unit vector"}}

\* dmd_frqs2axis_frqs fails on an optical axis that is off by 1.5e-12 although
\* bvec is a unit vector
C13_Witness ==
    /\ step = "raised"
    /\ args.call = "dmd_frqs2axis_frqs"
    /\ ~NotUnit(args.bvec) /\ args.bvec.off = 2
    /\ args.opt_axis_vec.off = -3
    /\ res = <<"ValueError", "pvec was not a unit vector">>

(***************************************************************************)
(* solve_2color_on_off                                                     *)
(***************************************************************************)
\* mutant: b3_on with the sign of b3_off
two_color_b3_same_sign(d, gamma_on, wavelength_on, n_on, wavelength_off, n_off) ==
    Only({<<Mul(Mul(Mul(Div(Div(One, Sqrt2), s), wavelength_on), Inv(d)), n_on),
            Mul(Mul(Mul(Div(Div(One, Sqrt2), s), wavelength_off), Inv(d)), n_off)>> :
          s \in {Sin(gamma_on)}})

\* lines 856-857: <<b3_on, b3_off>>
two_color_b3(d, gamma_on, wavelength_on, n_on, wavelength_off, n_off) ==
    Only({<<Mul(Mul(Mul(Div(Div(Neg(One), Sqrt2), s), wavelength_on), Inv(d)), n_on),
            Mul(Mul(Mul(Div(Div(One, Sqrt2), s), wavelength_off), Inv(d)), n_off)>> :
          s \in {Sin(gamma_on)}})

\* lines 862-867: <<bz, c2, c3>>
two_color_quadratic(gamma_on, b3_on, b3_off) ==
    Only({<<bz, Div(Div(Neg(diff), Sqrt2), s),
            Mul(Half, Sub(Add(Sq(bz), Div(Div(Sq(diff), Two), Sq(s))), One))>> :
          <<bz, diff, s>> \in {<<Mul(Div(Half, Cos(gamma_on)), Add(b3_on, b3_off)),
                                 Sub(b3_on, b3_off), Sin(gamma_on)>>}})

\* c2**2 - 4 * c3, the argument of np.sqrt at lines 869-870
two_color_discriminant(d, gamma_on, wavelength_on, n_on, wavelength_off, n_off) ==
    Only({Sub(Sq(q[2]), Mul(IntN(4), q[3])) :
          q \in {two_color_quadratic(gamma_on, b3[1], b3[2]) :
                 b3 \in {two_color_b3(d, gamma_on, wavelength_on, n_on,
                                      wavelength_off, n_off)}}})

\* mutant: the rows are left as computed
fill_nan_rows_skipped(b_vecs) == b_vecs

\* lines 878-880
fill_nan_rows(b_vecs) ==
    [ii \in DOMAIN b_vecs |->
        IF VIsNaN(b_vecs[ii]) THEN <<NaN, NaN, NaN>> ELSE b_vecs[ii]]

\* lines 886-896 for one row and one mirror angle
two_color_input(b, gamma) ==
    Only({mirror2xyz(m[1], m[2], Neg(m[3]), g) :
          <<m, g>> \in {<<xyz2mirror(v[1], v[2], v[3], h), h>> :
                          v \in {b}, h \in {gamma}}})

solve_2color_on_off(d, gamma_on, wavelength_on, n_on, wavelength_off, n_off) ==
    Only({[b_vecs |-> b_vecs,
           a_vecs_on |-> [ii \in DOMAIN b_vecs |-> two_color_input(b_vecs[ii], g)],
           a_vecs_off |-> [ii \in DOMAIN b_vecs |->
                              two_color_input(b_vecs[ii], NegAngle(g))]] :
          <<b_vecs, g>> \in
            {<<fill_nan_rows(<<<<bxs[1], Sub(bxs[1], shift), bz>>,
                               <<bxs[2], Sub(bxs[2], shift), bz>>>>), h>> :
               <<bxs, shift, bz, h>> \in
                 {<<<<Mul(Half, Add(Neg(q[2]), root)), Mul(Half, Sub(Neg(q[2]), root))>>,
                    Div(Div(Sub(b3[1], b3[2]), Sqrt2), Sin(gm)), q[1], gm>> :
                    <<q, root, b3, gm>> \in
                      {<<qq, Sqrt(Sub(Sq(qq[2]), Mul(IntN(4), qq[3]))), bb, gg>> :
                         <<qq, bb, gg>> \in
                           {<<two_color_quadratic(gamma_on, b[1], b[2]), b, gamma_on>> :
                              b \in {two_color_b3(d, gamma_on, wavelength_on, n_on,
                                                  wavelength_off, n_off)}}}}}})

MaxN == 2

TwoColorOrders == {IntN(n) : n \in -MaxN..MaxN}
\* mirror angles of sine 3/5 and 4/5, of both signs and in both branches, and 0
TwoColorGammas ==
    {Angle(Rat(n, m), k) : <<n, m>> \in {<<3, 4>>, <<4, 3>>, <<-3, 4>>, <<-4, 3>>},
                           k \in {0, 1}} \cup {Angle(Zero, 0)}

InitTwoColor ==
    /\ args \in [d : {One}, gamma_on : TwoColorGammas,
                 wavelength_on : Wavelengths, n_on : TwoColorOrders,
                 wavelength_off : Wavelengths, n_off : TwoColorOrders]
    /\ step = "call"
    /\ res = <<>>
    /\ NoSimulation

Solve2ColorOnOff ==
    /\ step = "call"
    /\ res' = solve_2color_on_off(args.d, args.gamma_on, args.wavelength_on, args.n_on,
                                  args.wavelength_off, args.n_off)
    /\ step' = "solved"
    /\ UNCHANGED <<args, tasks, results, prev>>

(***************************************************************************)
(* solve_combined_condition.  The functions it returns close over gamma    *)
(* and a3: the returned value is the record of these, and a_fn, b_fn take  *)
(* it as their first argument.                                             *)
(***************************************************************************)
\* mutant: a3 without the factor 1/sqrt(2)
solve_combined_condition_a3_unscaled(d, gamma, wavelength, order) ==
    Only({[gamma |-> gamma, a3 |-> a3,
           a2_bounds |-> <<Neg(Sqrt(Sub(One, Sq(a3)))), Sqrt(Sub(One, Sq(a3)))>>] :
          a3 \in {Mul(Mul(Div(One, Sin(gamma)), Div(wavelength, d)), order)}})

solve_combined_condition(d, gamma, wavelength, order) ==
    Only({[gamma |-> gamma, a3 |-> a3,
           a2_bounds |-> <<Neg(Sqrt(Sub(One, Sq(a3)))), Sqrt(Sub(One, Sq(a3)))>>] :
          a3 \in {Mul(Mul(Div(Div(One, Sqrt2), Sin(gamma)), Div(wavelength, d)), order)}})

a1_positive_fn(sol, a2) == Sqrt(Sub(Sub(One, Sq(a2)), Sq(sol.a3)))

\* a1 with the sign of the branch
a1_fn(sol, a2, positive) ==
    IF positive THEN a1_positive_fn(sol, a2) ELSE Neg(a1_positive_fn(sol, a2))

a_fn(sol, a2, positive) ==
    Only({<<Add(Add(Mul(Div(c, Sqrt2), a1), Mul(Div(One, Sqrt2), p)),
                Mul(Div(s, Sqrt2), a3)),
            Sub(Add(Mul(Div(Neg(c), Sqrt2), a1), Mul(Div(One, Sqrt2), p)),
                Mul(Div(s, Sqrt2), a3)),
            Add(Mul(Neg(s), a1), Mul(c, a3))>> :
          <<c, s, a1, p, a3>> \in {<<Cos(sol.gamma), Sin(sol.gamma),
                                     a1_fn(sol, a2, positive), a2, sol.a3>>}})

\* mutant: bz with the sign of a3 that az has
b_fn_bz_as_az(sol, a2, positive) ==
    Only({<<Sub(Add(Mul(Div(c, Sqrt2), a1), Mul(Div(One, Sqrt2), p)),
                Mul(Div(s, Sqrt2), a3)),
            Add(Add(Mul(Div(Neg(c), Sqrt2), a1), Mul(Div(One, Sqrt2), p)),
                Mul(Div(s, Sqrt2), a3)),
            Add(Mul(Neg(s), a1), Mul(c, a3))>> :
          <<c, s, a1, p, a3>> \in {<<Cos(sol.gamma), Sin(sol.gamma),
                                     a1_fn(sol, a2, positive), a2, sol.a3>>}})

b_fn(sol, a2, positive) ==
    Only({<<Sub(Add(Mul(Div(c, Sqrt2), a1), Mul(Div(One, Sqrt2), p)),
                Mul(Div(s, Sqrt2), a3)),
            Add(Add(Mul(Div(Neg(c), Sqrt2), a1), Mul(Div(One, Sqrt2), p)),
                Mul(Div(s, Sqrt2), a3)),
            Sub(Mul(Neg(s), a1), Mul(c, a3))>> :
          <<c, s, a1, p, a3>> \in {<<Cos(sol.gamma), Sin(sol.gamma),
                                     a1_fn(sol, a2, positive), a2, sol.a3>>}})

\* the solutions of the combined condition at the a2 of the output vector b,
\* on both branches: <<a, b>> for positive = True and for positive = False
CombinedAt(sol, b) ==
    Only({<<<<a_fn(sol, a2, TRUE), b_fn(sol, a2, TRUE)>>,
            <<a_fn(sol, a2, FALSE), b_fn(sol, a2, FALSE)>>>> :
          a2 \in {xyz2mirror(b[1], b[2], b[3], sol.gamma)[2]}})

\* solve_combined_condition for the wavelength and order of the ON mirrors and
\* of the OFF mirrors (at -gamma_on), evaluated at each returned output vector
SolveCombinedCondition ==
    /\ step = "solved"
    /\ res' = [b_vecs |-> res.b_vecs, a_vecs_on |-> res.a_vecs_on,
               a_vecs_off |-> res.a_vecs_off,
               combined_on |->
                  [ii \in DOMAIN res.b_vecs |->
                      CombinedAt(solve_combined_condition(args.d, args.gamma_on,
                                     args.wavelength_on, args.n_on), res.b_vecs[ii])],
               combined_off |->
                  [ii \in DOMAIN res.b_vecs |->
                      CombinedAt(solve_combined_condition(args.d, NegAngle(args.gamma_on),
                                     args.wavelength_off, args.n_off), res.b_vecs[ii])]]
    /\ step' = "combined"
    /\ UNCHANGED <<args, tasks, results, prev>>

NextTwoColor == Solve2ColorOnOff \/ SolveCombinedCondition
SpecTwoColor == InitTwoColor /\ [][NextTwoColor]_vars

Discriminant ==
    two_color_discriminant(args.d, args.gamma_on, args.wavelength_on, args.n_on,
                           args.wavelength_off, args.n_off)
ComputedBz ==
    Only({two_color_quadratic(args.gamma_on, b3[1], b3[2])[1] :
          b3 \in {two_color_b3(args.d, args.gamma_on, args.wavelength_on, args.n_on,
                               args.wavelength_off, args.n_off)}})
AllRowsNaN(m) == \A ii \in DOMAIN m : VAllNaN(m[ii])
NoRowHasNaN(m) == \A ii \in DOMAIN m : ~VIsNaN(m[ii])

\* C14: with a negative discriminant c2^2 - 4*c3 the call returns (no error)
\* and every component of the rows of b_vecs, bz included, and of a_vecs_on
\* and a_vecs_off is NaN; with a non-negative discriminant no component of the
\* returned vectors is NaN.
C14_NoRealRootIsNaN ==
    step = "solved" =>
        /\ Lt(Discriminant, Zero) =>
              AllRowsNaN(res.b_vecs) /\ AllRowsNaN(res.a_vecs_on)
                  /\ AllRowsNaN(res.a_vecs_off)
        /\ Le(Zero, Discriminant) =>
              NoRowHasNaN(res.b_vecs) /\ NoRowHasNaN(res.a_vecs_on)
                  /\ NoRowHasNaN(res.a_vecs_off)

\* a call without a real root whose bz, by itself, is a non-zero real number
C14_Witness ==
    /\ step = "solved"
    /\ Lt(Discriminant, Zero)
    /\ ~IsNaN(ComputedBz) /\ ComputedBz # Zero
    /\ AllRowsNaN(res.b_vecs)

Degenerate == args.wavelength_on = args.wavelength_off /\ args.n_on = args.n_off

\* C15: in the degenerate case of solve_2color_on_off (equal wavelengths, equal
\* orders, mirrors at +gamma and -gamma) every returned output vector is the
\* output direction that solve_combined_condition gives for that wavelength
\* and order, together with the returned input vector, for the ON mirrors and
\* for the OFF mirrors.
C15_TwoColorCoincidence ==
    (step = "combined" /\ Degenerate) =>
        \A ii \in DOMAIN res.b_vecs :
            ~VIsNaN(res.b_vecs[ii]) =>
                /\ \E br \in 1..2 :
                      res.combined_on[ii][br] = <<res.a_vecs_on[ii], res.b_vecs[ii]>>
                /\ \E br \in 1..2 :
                      res.combined_off[ii][br] = <<res.a_vecs_off[ii], res.b_vecs[ii]>>

\* a degenerate call of non-zero order with two different real output vectors
C15_Witness ==
    /\ step = "combined"
    /\ Degenerate
    /\ args.n_on # Zero
    /\ NoRowHasNaN(res.b_vecs)
    /\ res.b_vecs[1] # res.b_vecs[2]
    /\ res.combined_on[1][1] # res.combined_on[1][2]
    /\ \E br \in 1..2 : res.combined_on[1][br] = <<res.a_vecs_on[1], res.b_vecs[1]>>

(***************************************************************************)
(* simulate_1d, simulate_2d and the plot functions: the result bundle.     *)
(* An array is recorded by its shape; a scalar argument that the code      *)
(* wraps into an array is Scalar, a list or array is Array(its length).    *)
(***************************************************************************)
DefaultOutputs1d == 2400
DefaultOffsets2d == 50
DefaultDiffOrders1d == 10
DefaultDiffOrders2d == 7

\* len() after the isinstance(..., (float, int)) wrapping
Scalar == [kind |-> "scalar", len |-> 1]
Array(n) == [kind |-> "array", len |-> n]
\* an argument left at its default
Default == [kind |-> "default", len |-> 0]
LenOf(x) == x.len
\* a call that raised
Raised(error) == [raised |-> error]
Shape(s) == [shape |-> s]

\* simulate_dmd is called once per input direction and wavelength: the error
\* of its argument checks, if it is called at all and they fail
simulation_error(call, ninputs, n_wavelens) ==
    IF ninputs > 0 /\ n_wavelens > 0 THEN check_arguments(call) ELSE "ok"

simulate_1d(call) ==
    Only({IF simulation_error(call, ninputs, n_wavelens) # "ok"
          THEN Raised(simulation_error(call, ninputs, n_wavelens))
          ELSE [pattern |-> call.pattern, wavelengths |-> n_wavelens,
                gamma_on |-> call.gamma_on, gamma_off |-> call.gamma_off,
                dx |-> call.dx, dy |-> call.dy, wx |-> call.wx, wy |-> call.wy,
                uvecs_in |-> Shape(<<ninputs, 3>>),
                uvecs_out |-> Shape(<<ninputs, noutputs, 3>>),
                uvec_out_blaze_on |-> Shape(<<ninputs, 3>>),
                uvec_out_blaze_off |-> Shape(<<ninputs, 3>>),
                diff_uvec_out |-> Shape(<<ninputs, n_wavelens, norders, 3>>),
                diff_nxs |-> Shape(<<norders>>), diff_nys |-> Shape(<<norders>>),
                efields |-> Shape(<<ninputs, noutputs, n_wavelens>>),
                sinc_efield_on |-> Shape(<<ninputs, noutputs, n_wavelens>>),
                sinc_efield_off |-> Shape(<<ninputs, noutputs, n_wavelens>>)] :
          <<ninputs, noutputs, n_wavelens, norders>> \in
             {<<LenOf(call.tm_ins),
                IF call.tm_out_offsets = Default THEN DefaultOutputs1d
                ELSE LenOf(call.tm_out_offsets),
                LenOf(call.wavelengths),
                2 * (IF call.ndiff_orders = Default THEN DefaultDiffOrders1d
                     ELSE LenOf(call.ndiff_orders)) + 1>>}})

\* mutant: the diffraction predictions stored under the name of the local
\* variable that holds them
simulate_2d_local_name(call) ==
    Only({IF simulation_error(call, nx_in * ny_in, n_wavelens) # "ok"
          THEN Raised(simulation_error(call, nx_in * ny_in, n_wavelens))
          ELSE [pattern |-> call.pattern, wavelengths |-> n_wavelens,
                gamma_on |-> call.gamma_on, gamma_off |-> call.gamma_off,
                dx |-> call.dx, dy |-> call.dy, wx |-> call.wx, wy |-> call.wy,
                uvecs_in |-> Shape(<<ny_in, nx_in, 3>>),
                uvecs_out |-> Shape(<<ny_in, nx_in, nout, nout, 3>>),
                uvec_out_blaze_on |-> Shape(<<ny_in, nx_in, 3>>),
                uvec_out_blaze_off |-> Shape(<<ny_in, nx_in, 3>>),
                uvec_out_diff |->
                    Shape(<<n_wavelens, ny_in, nx_in, norders, norders, 3>>),
                diff_nxs |-> Shape(<<norders, norders>>),
                diff_nys |-> Shape(<<norders, norders>>),
                efields |-> Shape(<<n_wavelens, ny_in, nx_in, nout, nout>>),
                sinc_efield_on |-> Shape(<<n_wavelens, ny_in, nx_in, nout, nout>>),
                sinc_efield_off |-> Shape(<<n_wavelens, ny_in, nx_in, nout, nout>>)] :
          <<nx_in, ny_in, nout, n_wavelens, norders>> \in
             {<<LenOf(call.tx_in), LenOf(call.ty_in),
                IF call.tout_offsets = Default THEN DefaultOffsets2d
                ELSE LenOf(call.tout_offsets),
                LenOf(call.wavelengths),
                2 * (IF call.ndiff_orders = Default THEN DefaultDiffOrders2d
                     ELSE LenOf(call.ndiff_orders)) + 1>>}})

simulate_2d(call) ==
    Only({IF simulation_error(call, nx_in * ny_in, n_wavelens) # "ok"
          THEN Raised(simulation_error(call, nx_in * ny_in, n_wavelens))
          ELSE [pattern |-> call.pattern, wavelengths |-> n_wavelens,
                gamma_on |-> call.gamma_on, gamma_off |-> call.gamma_off,
                dx |-> call.dx, dy |-> call.dy, wx |-> call.wx, wy |-> call.wy,
                uvecs_in |-> Shape(<<ny_in, nx_in, 3>>),
                uvecs_out |-> Shape(<<ny_in, nx_in, nout, nout, 3>>),
                uvec_out_blaze_on |-> Shape(<<ny_in, nx_in, 3>>),
                uvec_out_blaze_off |-> Shape(<<ny_in, nx_in, 3>>),
                diff_uvec_out |->
                    Shape(<<n_wavelens, ny_in, nx_in, norders, norders, 3>>),
                diff_nxs |-> Shape(<<norders, norders>>),
                diff_nys |-> Shape(<<norders, norders>>),
                efields |-> Shape(<<n_wavelens, ny_in, nx_in, nout, nout>>),
                sinc_efield_on |-> Shape(<<n_wavelens, ny_in, nx_in, nout, nout>>),
                sinc_efield_off |-> Shape(<<n_wavelens, ny_in, nx_in, nout, nout>>)] :
          <<nx_in, ny_in, nout, n_wavelens, norders>> \in
             {<<LenOf(call.tx_in), LenOf(call.ty_in),
                IF call.tout_offsets = Default THEN DefaultOffsets2d
                ELSE LenOf(call.tout_offsets),
                LenOf(call.wavelengths),
                2 * (IF call.ndiff_orders = Default THEN DefaultDiffOrders2d
                     ELSE LenOf(call.ndiff_orders)) + 1>>}})

\* the keys plot_1d_sim reads from data, in the order of lines 1009-1049
plot_1d_sim_keys ==
    <<"pattern", "wavelengths", "gamma_on", "gamma_off", "dx", "dy", "wx", "wy",
      "uvecs_in", "uvecs_out", "efields", "sinc_efield_on", "sinc_efield_off",
      "diff_uvec_out", "diff_nxs", "uvec_out_blaze_on", "uvec_out_blaze_off">>

\* the keys plot_2d_sim reads from data, in the order of lines 1264-1289
plot_2d_sim_keys ==
    <<"pattern", "wavelengths", "dx", "dy", "wx", "wy", "gamma_on", "gamma_off",
      "uvecs_in", "uvecs_out", "uvec_out_blaze_on", "uvec_out_blaze_off",
      "diff_uvec_out", "diff_nxs", "diff_nys",
      "efields", "sinc_efield_on", "sinc_efield_off">>

\* data[key] for each key in turn: the keys read, and the KeyError of the
\* first key that data does not have
read_keys(data, keys) ==
    IF \A i \in DOMAIN keys : keys[i] \in DOMAIN data
    THEN [read |-> keys, error |-> "none"]
    ELSE Only({[read |-> SubSeq(keys, 1, first), error |-> "KeyError"] :
               first \in {CHOOSE i \in DOMAIN keys :
                             /\ keys[i] \notin DOMAIN data
                             /\ \A j \in 1..(i - 1) : keys[j] \in DOMAIN data}})

MaxLen == 2

Lengths == {Scalar} \cup {Array(n) : n \in 1..MaxLen}
BundleWidths == {<<Rat(9, 10), Rat(9, 10)>>, <<Rat(11, 10), Rat(9, 10)>>}

InitBundle ==
    /\ args \in [pattern : SimPatterns, wavelengths : Lengths \cup {Array(0)},
                 gamma_on : {SimGamma}, gamma_off : {NegAngle(SimGamma)},
                 dx : {One}, dy : {One},
                 wx : {w[1] : w \in BundleWidths}, wy : {w[2] : w \in BundleWidths},
                 tm_ins : Lengths, tx_in : Lengths, ty_in : Lengths,
                 tm_out_offsets : {Default} \cup {Array(n) : n \in 1..MaxLen},
                 tout_offsets : {Default} \cup {Array(n) : n \in 1..MaxLen},
                 ndiff_orders : {Default, Array(0)}]
    /\ args.tm_ins = args.tx_in
    /\ args.tm_out_offsets = args.tout_offsets
    /\ step = "call"
    /\ res = <<>>
    /\ NoSimulation

Simulate1d ==
    /\ step = "call"
    /\ res' = simulate_1d(args)
    /\ step' = IF "raised" \in DOMAIN res' THEN "raised" ELSE "simulate_1d"
    /\ UNCHANGED <<args, tasks, results, prev>>

Simulate2d ==
    /\ step = "call"
    /\ res' = simulate_2d(args)
    /\ step' = IF "raised" \in DOMAIN res' THEN "raised" ELSE "simulate_2d"
    /\ UNCHANGED <<args, tasks, results, prev>>

Plot1dSim ==
    /\ step = "simulate_1d"
    /\ res' = [data |-> res, plot |-> read_keys(res, plot_1d_sim_keys)]
    /\ step' = "plot_1d_sim"
    /\ UNCHANGED <<args, tasks, results, prev>>

Plot2dSim ==
    /\ step = "simulate_2d"
    /\ res' = [data |-> res, plot |-> read_keys(res, plot_2d_sim_keys)]
    /\ step' = "plot_2d_sim"
    /\ UNCHANGED <<args, tasks, results, prev>>

NextBundle == Simulate1d \/ Simulate2d \/ Plot1dSim \/ Plot2dSim
SpecBundle == InitBundle /\ [][NextBundle]_vars

BundleKeys ==
    {"pattern", "wavelengths", "gamma_on", "gamma_off", "dx", "dy", "wx", "wy",
     "uvecs_in", "uvecs_out", "uvec_out_blaze_on", "uvec_out_blaze_off",
     "diff_uvec_out", "diff_nxs", "diff_nys",
     "efields", "sinc_efield_on", "sinc_efield_off"}

\* C16: every bundle that simulate_1d and simulate_2d return has exactly the
\* keys pattern, wavelengths, gamma_on, gamma_off, dx, dy, wx, wy, uvecs_in,
\* uvecs_out, uvec_out_blaze_on, uvec_out_blaze_off, diff_uvec_out, diff_nxs,
\* diff_nys, efields, sinc_efield_on, sinc_efield_off, whatever the inputs, and
\* every key that plot_1d_sim and plot_2d_sim read is one of them.
C16_BundleKeys ==
    /\ step \in {"simulate_1d", "simulate_2d"} => DOMAIN res = BundleKeys
    /\ step \in {"plot_1d_sim", "plot_2d_sim"} =>
          /\ DOMAIN res.data = BundleKeys
          /\ res.plot.error = "none"
          /\ \A i \in DOMAIN res.plot.read : res.plot.read[i] \in BundleKeys

\* plot_2d_sim has read all its keys from a bundle of simulate_2d made for
\* scalar inputs and the default offsets
C16_Witness ==
    /\ step = "plot_2d_sim"
    /\ args.tx_in = Scalar /\ args.ty_in = Scalar /\ args.wavelengths = Scalar
    /\ args.tout_offsets = Default
    /\ res.plot.error = "none"
    /\ Len(res.plot.read) = 18
    /\ res.data.efields = Shape(<<1, 1, 1, DefaultOffsets2d, DefaultOffsets2d>>)

(***************************************************************************)
(* get_diffraction_order_limits                                            *)
(***************************************************************************)
\* an integer no smaller than |x|: sqrt(r) <= r for every radicand r >= 1
Magnitude(x) ==
    IF DOMAIN x = {} THEN 0
    ELSE Only({(RFloor(<<IAbs(x[r][1]), x[r][2]>>) + 1) * r
                 + (IF DOMAIN x = {r} THEN 0
                    ELSE Only({(RFloor(<<IAbs(x[q][1]), x[q][2]>>) + 1) * q :
                               q \in DOMAIN x \ {r}})) :
               r \in {CHOOSE m \in DOMAIN x : TRUE}})

\* int(np.floor(x)), int(np.ceil(x)) of a number that is not NaN
Floor(x) ==
    Only({CHOOSE n \in -b..b : Le(IntN(n), y) /\ Lt(y, IntN(n + 1)) :
          <<y, b>> \in {<<x, Magnitude(x)>>}})
Ceil(x) ==
    Only({CHOOSE n \in -b..b : Lt(IntN(n - 1), y) /\ Le(y, IntN(n)) :
          <<y, b>> \in {<<x, Magnitude(x)>>}})

\* gamma > 0 and gamma <= 0 for the angle arctan(t) + k*pi; both are False
\* for NaN
AngleIsNaN(gamma) == IsNaN(gamma.t)
AngleSign(gamma) ==
    IF gamma.k > 0 THEN 1 ELSE IF gamma.k < 0 THEN -1 ELSE Sign(gamma.t)
AngleGt0(gamma) == ~AngleIsNaN(gamma) /\ AngleSign(gamma) > 0
AngleLe0(gamma) == ~AngleIsNaN(gamma) /\ AngleSign(gamma) <= 0

\* d / wavelength * np.sqrt(2) * np.sin(gamma)
order_limit(wavelength, d, gamma) ==
    Mul(Mul(Div(d, wavelength), Sqrt2), Sin(gamma))

\* <<nmin, nmax>>, or the error raised
get_diffraction_order_limits(wavelength, d, gamma) ==
    IF AngleGt0(gamma) THEN <<1, Floor(order_limit(wavelength, d, gamma))>>
    ELSE IF AngleLe0(gamma) THEN <<Ceil(order_limit(wavelength, d, gamma)), -1>>
    ELSE <<"ValueError">>

LimitGammas ==
    {Angle(Rat(n, m), 0) : <<n, m>> \in {<<3, 4>>, <<4, 3>>, <<-3, 4>>, <<-4, 3>>}}
        \cup {Angle(Zero, 0), Angle(NaN, 0)}

InitLimits ==
    /\ args \in [wavelength : Wavelengths, d : {One, Two}, gamma : LimitGammas,
                 order : -MaxN..MaxN]
    /\ step = "call"
    /\ res = <<>>
    /\ NoSimulation

GetDiffractionOrderLimits ==
    /\ step = "call"
    /\ res' = get_diffraction_order_limits(args.wavelength, args.d, args.gamma)
    /\ step' = IF Len(res') = 2 THEN "limits" ELSE "raised"
    /\ UNCHANGED <<args, tasks, results, prev>>

\* solve_combined_condition for the order under test, and its solution at
\* a2 = 0 on the positive branch
SolveOrder ==
    /\ step = "limits"
    /\ \E sol \in {solve_combined_condition(args.d, args.gamma, args.wavelength,
                                            IntN(args.order))} :
          res' = [limits |-> res, a3 |-> sol.a3, a |-> a_fn(sol, Zero, TRUE)]
    /\ step' = "solved"
    /\ UNCHANGED <<args, tasks, results, prev>>

NextLimits == GetDiffractionOrderLimits \/ SolveOrder
SpecLimits == InitLimits /\ [][NextLimits]_vars

\* C17: get_diffraction_order_limits called with gamma exactly 0 raises an
\* error; it returns limits only for gamma strictly positive or strictly
\* negative.
C17_ZeroGammaRaises ==
    /\ (step # "call" /\ args.gamma = Angle(Zero, 0)) => step = "raised"
    /\ step \in {"limits", "solved"} => (AngleSign(args.gamma) # 0)

\* C20: get_diffraction_order_limits returns [nmin, nmax] with the result
\* [1, floor(sqrt(2)*d*sin(gamma)/wavelength)] for gamma > 0 and
\* [ceil(sqrt(2)*d*sin(gamma)/wavelength), -1] for gamma < 0; every integer n
\* with nmin <= n <= nmax gives |a3| <= 1 in solve_combined_condition, and no
\* integer n outside [nmin, nmax] admits a real solution.
C20_OrderLimitsExact ==
    (step = "solved" /\ AngleSign(args.gamma) # 0) =>
        /\ AngleSign(args.gamma) > 0 =>
              res.limits = <<1, Floor(order_limit(args.wavelength, args.d, args.gamma))>>
        /\ AngleSign(args.gamma) < 0 =>
              res.limits = <<Ceil(order_limit(args.wavelength, args.d, args.gamma)), -1>>
        /\ (res.limits[1] <= args.order /\ args.order <= res.limits[2])
              => Le(NAbs(res.a3), One)
        /\ (args.order < res.limits[1] \/ res.limits[2] < args.order)
              => (~Le(NAbs(res.a3), One) /\ VIsNaN(res.a))

(***************************************************************************)
(* simulate_dmd_dft and interpolate_dmd_data called with arguments that    *)
(* simulate_dmd rejects                                                    *)
(***************************************************************************)
InitDft ==
    /\ args \in {[pattern |-> p, efield_profile |-> UniformProfile(p),
                  wavelength |-> Rat(1, 2), gamma_on |-> SimGamma,
                  gamma_off |-> NegAngle(SimGamma), dx |-> One, dy |-> One,
                  wx |-> w[1], wy |-> w[2], uvec_in |-> SimUvecIn,
                  zshifts |-> None, order |-> <<0, 0>>, bvec |-> b] :
                    p \in SimPatterns, w \in SimWidths, b \in XvalDirections}
    /\ step = "start"
    /\ res = <<>>
    /\ NoSimulation

\* simulate_dmd_dft(pattern, ..., order): it has no argument checks
SimulateDmdDft ==
    /\ step = "start"
    /\ res' = simulate_dmd_dft(args, args.order)
    /\ step' = "simulate_dmd_dft"
    /\ UNCHANGED <<args, tasks, results, prev>>

\* interpolate_dmd_data(pattern, ..., order, [bvec]): no argument checks either
InterpolateUnchecked ==
    /\ step = "start"
    /\ res' = <<interpolate_dmd_data(args, args.order, args.bvec)>>
    /\ step' = "interpolate_dmd_data"
    /\ UNCHANGED <<args, tasks, results, prev>>

NextDft == SimulateDmdDft \/ InterpolateUnchecked
SpecDft == InitDft /\ [][NextDft]_vars

\* C18: simulate_dmd_dft and interpolate_dmd_data raise an error, before any
\* DFT, envelope or interpolation is computed, when the pattern has an entry
\* outside {0, 1} or when wx > dx or wy > dy.
C18_DftPreconditions ==
    (step # "start" /\ Violated(args)) => step = "raised"

(***************************************************************************)
(* solve_combined_condition evaluated along a2.  The end points of         *)
(* a2_bounds are floats: np.sqrt(1 - a3**2) rounded.  A float is recorded  *)
(* as [v, off]: the exact number v times (1 + off * eps), eps the unit     *)
(* round-off, off in {-1, 0, 1}.  The source notes the consequence at line *)
(* 790: "due to rounding issues sometimes a1_positive_fn() gives nans at   *)
(* the end points".  With d = 1, gamma = arctan(4/3), wavelength = 0.5,    *)
(* order = 1 the doubles give 1 - a2_bounds[1]**2 - a3**2 = -2.8e-17.      *)
(***************************************************************************)
Float(v, off) == [v |-> v, off |-> off]

\* x <= y for floats
FloatLe(x, y) ==
    Only({s < 0 \/ (s = 0 /\ Sign(a.v) * a.off <= Sign(b.v) * b.off) :
          <<s, a, b>> \in {<<Sign(Sub(x.v, y.v)), x, y>>}})

\* a2_bounds as floats; 1 - 0**2 = 1 and np.sqrt(1) = 1 are exact
a2_bounds_float(sol, rounding) ==
    <<Float(sol.a2_bounds[1], IF sol.a3 = Zero THEN 0 ELSE rounding),
      Float(sol.a2_bounds[2], IF sol.a3 = Zero THEN 0 ELSE rounding)>>

\* 1 - a2**2 - a3**2 < 0 as the floats give it
radicand_negative(sol, a2) ==
    IF IsNaN(a2.v) \/ IsNaN(sol.a3) THEN FALSE
    ELSE Only({e < 0 \/ (e = 0 /\ p.off > 0 /\ p.v # Zero) :
               <<e, p>> \in {<<Sign(Sub(Sub(One, Sq(a2.v)), Sq(sol.a3))), a2>>}})

a_fn_float(sol, a2, positive) ==
    IF radicand_negative(sol, a2) THEN NaNDirection ELSE a_fn(sol, a2.v, positive)
b_fn_float(sol, a2, positive) ==
    IF radicand_negative(sol, a2) THEN NaNDirection ELSE b_fn(sol, a2.v, positive)

\* the a2 of a call: a fraction of the upper end point, or a number
A2Fractions == {IntN(-2), IntN(-1), Zero, Half, One}
a2_of(bounds, relative, t) ==
    IF relative THEN Float(Mul(t, bounds[2].v), bounds[2].off) ELSE Float(t, 0)

InitCombined ==
    /\ args \in {a \in [d : {One}, gamma : TwoColorGammas, wavelength : Wavelengths,
                        order : TwoColorOrders, rounding : {-1, 0, 1}] :
                    a.order = Zero => a.rounding = 0}
    /\ step = "call"
    /\ res = <<>>
    /\ NoSimulation

\* a_fn, b_fn, a2_bounds = solve_combined_condition(d, gamma, wavelength, order)
CallSolveCombined ==
    /\ step = "call"
    /\ res' = Only({[sol |-> sol, a2_bounds |-> a2_bounds_float(sol, args.rounding)] :
                    sol \in {solve_combined_condition(args.d, args.gamma,
                                                      args.wavelength, args.order)}})
    /\ step' = "returned"
    /\ UNCHANGED <<args, tasks, results, prev>>

\* a_fn(a2, positive), b_fn(a2, positive)
EvaluateCombined ==
    /\ step = "returned"
    /\ \E relative \in BOOLEAN, t \in A2Fractions, positive \in BOOLEAN :
          res' = Only({[sol |-> res.sol, a2_bounds |-> res.a2_bounds, a2 |-> a2,
                        positive |-> positive,
                        a |-> a_fn_float(res.sol, a2, positive),
                        b |-> b_fn_float(res.sol, a2, positive)] :
                       a2 \in {a2_of(res.a2_bounds, relative, t)}})
    /\ step' = "evaluated"
    /\ UNCHANGED <<args, tasks, results, prev>>

NextCombined == CallSolveCombined \/ EvaluateCombined
SpecCombined == InitCombined /\ [][NextCombined]_vars

InsideBounds ==
    /\ ~IsNaN(res.a2.v)
    /\ ~IsNaN(res.a2_bounds[1].v)
    /\ FloatLe(res.a2_bounds[1], res.a2)
    /\ FloatLe(res.a2, res.a2_bounds[2])
RadicandRoundsBelowZero ==
    /\ InsideBounds
    /\ res.a2.v \in {res.a2_bounds[1].v, res.a2_bounds[2].v}
    /\ res.a2.off > 0
    /\ res.a2.v # Zero
JointSolution ==
    /\ NormSq(res.a) = One
    /\ NormSq(res.b) = One
    /\ Sub(res.a[1], res.b[1]) = Mul(Div(args.wavelength, args.d), args.order)
    /\ Sub(res.a[2], res.b[2]) = Neg(Mul(Div(args.wavelength, args.d), args.order))
    /\ res.b = solve_blaze_output(res.a, args.gamma)

\* C19 as stated: for every a2 inside a2_bounds and both branches a_fn and b_fn
\* give unit vectors that satisfy the grating equation for order (n, -n) and
\* the blaze condition; outside the bounds the components are NaN.
C19_CombinedCondition ==
    step = "evaluated" =>
        IF InsideBounds THEN JointSolution
        ELSE VAllNaN(res.a) /\ VAllNaN(res.b)

\* C19, amended: the same, except at an end point of a2_bounds whose rounding
\* makes 1 - a2^2 - a3^2 negative, where the components are NaN as they are
\* outside the bounds.
C19_CombinedConditionRounded ==
    step = "evaluated" =>
        IF InsideBounds /\ ~RadicandRoundsBelowZero THEN JointSolution
        ELSE VAllNaN(res.a) /\ VAllNaN(res.b)

\* a non-zero order evaluated on the negative branch strictly inside the bounds
C19_Witness ==
    /\ step = "evaluated"
    /\ args.order # Zero
    /\ InsideBounds
    /\ res.a2.v \notin {res.a2_bounds[1].v, res.a2_bounds[2].v}
    /\ ~res.positive
    /\ JointSolution
    /\ res.a # res.b

(***************************************************************************)
(* solve_2color_on_off: the returned rows as joint solutions               *)
(***************************************************************************)
\* b is the blaze reflection of a at mirror angle gamma, and a - b is
\* (wavelength / d) * (n, -n) in x and y
BlazedOrder(a, b, gamma, wavelength, n) ==
    /\ b = solve_blaze_output(a, gamma)
    /\ Sub(a[1], b[1]) = Mul(Div(wavelength, args.d), n)
    /\ Sub(a[2], b[2]) = Neg(Mul(Div(wavelength, args.d), n))

\* C21: when the quadratic of solve_2color_on_off has real roots, each row b of
\* b_vecs is a unit vector, is the blaze reflection at +gamma_on of its row of
\* a_vecs_on with a_on - b = (wavelength_on/d)*(n_on, -n_on) in x and y, and is
\* the blaze reflection at -gamma_on of its row of a_vecs_off with
\* a_off - b = (wavelength_off/d)*(n_off, -n_off) in x and y.
C21_TwoColorJointSolution ==
    (step = "solved" /\ Le(Zero, Discriminant)) =>
        \A ii \in DOMAIN res.b_vecs :
            /\ NormSq(res.b_vecs[ii]) = One
            /\ BlazedOrder(res.a_vecs_on[ii], res.b_vecs[ii], args.gamma_on,
                           args.wavelength_on, args.n_on)
            /\ BlazedOrder(res.a_vecs_off[ii], res.b_vecs[ii], NegAngle(args.gamma_on),
                           args.wavelength_off, args.n_off)

\* two wavelengths in two different non-zero orders with two distinct real roots
C21_Witness ==
    /\ step = "solved"
    /\ Lt(Zero, Discriminant)
    /\ args.wavelength_on # args.wavelength_off
    /\ args.n_on # Zero /\ args.n_off # Zero /\ args.n_on # args.n_off
    /\ res.b_vecs[1] # res.b_vecs[2]
    /\ res.a_vecs_on[1] # res.a_vecs_off[1]
    /\ NormSq(res.b_vecs[1]) = One

(***************************************************************************)
(* simulate_dmd: the four values of one output direction, and the same     *)
(* direction simulated again with another pattern, other mirror angles and *)
(* other mirror widths on the same device                                  *)
(***************************************************************************)
FieldGammas == {SimGamma, Angle(Rat(4, 3), 0)}
FieldWidths == {Rat(9, 10), One}

InitFields ==
    /\ args \in {[pattern |-> p, wavelength |-> Rat(1, 2), gamma_on |-> g,
                  gamma_off |-> NegAngle(g), dx |-> One, dy |-> One,
                  wx |-> w, wy |-> Rat(9, 10), uvec_in |-> SimUvecIn,
                  zshifts |-> None, bvec |-> b] :
                    p \in XvalPatterns, g \in FieldGammas, w \in FieldWidths,
                    b \in XvalDirections}
    /\ step = "start"
    /\ res = <<>>
    /\ NoSimulation

\* the call with the complementary pattern, the two mirror angles exchanged,
\* and mirrors as wide as the pitch
OtherCall(call) ==
    [pattern |-> [y \in DOMAIN call.pattern |->
                     [x \in DOMAIN call.pattern[y] |-> 1 - call.pattern[y][x]]],
     wavelength |-> call.wavelength, gamma_on |-> call.gamma_off,
     gamma_off |-> call.gamma_on, dx |-> call.dx, dy |-> call.dy,
     wx |-> call.dx, wy |-> call.dy, uvec_in |-> call.uvec_in,
     zshifts |-> call.zshifts, bvec |-> call.bvec]

\* simulate_dmd(pattern, ..., uvecs_out = [bvec]): the four returned values
SimulateDmdValues ==
    /\ step = "start"
    /\ check_arguments(args) = "ok"
    /\ res' = <<calc_output_angle(args, args.bvec)>>
    /\ step' = "simulated"
    /\ UNCHANGED <<args, tasks, results, prev>>

SimulateDmdOther ==
    /\ step = "simulated"
    /\ check_arguments(OtherCall(args)) = "ok"
    /\ res' = Append(res, calc_output_angle(OtherCall(args), args.bvec))
    /\ step' = "compared"
    /\ UNCHANGED <<args, tasks, results, prev>>

NextFields == SimulateDmdValues \/ SimulateDmdOther
SpecFields == InitFields /\ [][NextFields]_vars

MirrorsAt(call, value) == {q \in Mirrors(call.pattern) : call.pattern[q[1]][q[2]] = value}
\* the phase sum over the mirrors whose pattern entry is value
PhaseSumAt(call, value) ==
    SumPhases(call, VSub(call.uvec_in, call.bvec), MirrorsAt(call, value))
\* efields = sinc_efield_on * (sum over ON) + sinc_efield_off * (sum over OFF),
\* and the two uniform patterns, for the returned values r of the call
TiedTogether(call, r) ==
    /\ r[1] = FieldAdd(FieldTerm(r[2], PhaseSumAt(call, 1)),
                       FieldTerm(r[3], PhaseSumAt(call, 0)))
    /\ MirrorsAt(call, 0) = {} => r[1] = FieldTerm(r[2], r[4])
    /\ MirrorsAt(call, 1) = {} => r[1] = FieldTerm(r[3], r[4])

\* C22: for a binary pattern, efields is sinc_efield_on times the phase sum
\* over the mirrors with entry 1 plus sinc_efield_off times the phase sum over
\* the mirrors with entry 0, so a uniform pattern gives the envelope of its
\* state times diffraction_efield; and diffraction_efield is the same for
\* another pattern, other mirror angles and other mirror widths.
C22_FieldsTiedTogether ==
    /\ step \in {"simulated", "compared"} => TiedTogether(args, res[1])
    /\ step = "compared" =>
          /\ TiedTogether(OtherCall(args), res[2])
          /\ res[2][4] = res[1][4]

\* a mixed pattern with both phase sums non-zero, envelopes that differ
\* between the two calls, and a field that differs too
C22_Witness ==
    /\ step = "compared"
    /\ PhaseSumAt(args, 1) # CZero /\ PhaseSumAt(args, 0) # CZero
    /\ res[1][4] # CZero
    /\ res[1][2] # res[2][2]
    /\ res[1][1] # res[2][1]
    /\ res[1][1] # FieldZero

(***************************************************************************)
(* solve_blaze_output as a reflection: applied once, applied twice, and    *)
(* followed by solve_blaze_input                                           *)
(***************************************************************************)
InitReflect ==
    /\ args \in [v : IntVecs \cup UnitVecs, gamma : GammaSet]
    /\ step = "start"
    /\ res = <<>>
    /\ NoSimulation

\* b = solve_blaze_output(a, gamma)
BlazeOutput ==
    /\ step = "start"
    /\ res' = <<solve_blaze_output(args.v, args.gamma)>>
    /\ step' = "output"
    /\ UNCHANGED <<args, tasks, results, prev>>

\* solve_blaze_output(b, gamma)
BlazeOutputAgain ==
    /\ step = "output"
    /\ res' = Append(res, solve_blaze_output(res[1], args.gamma))
    /\ step' = "output_twice"
    /\ UNCHANGED <<args, tasks, results, prev>>

\* solve_blaze_input(b, gamma)
BlazeInput ==
    /\ step = "output"
    /\ res' = Append(res, solve_blaze_input(res[1], args.gamma))
    /\ step' = "input"
    /\ UNCHANGED <<args, tasks, results, prev>>

NextReflect == BlazeOutput \/ BlazeOutputAgain \/ BlazeInput
SpecReflect == InitReflect /\ [][NextReflect]_vars

MirrorFrame(v) == xyz2mirror(v[1], v[2], v[3], args.gamma)

\* C23: b = solve_blaze_output(a, gamma) has the mirror-frame coordinates
\* (a1, a2, -a3) of a = (a1, a2, a3) in that frame, and so the norm of a;
\* solve_blaze_output of b is a again; and solve_blaze_input(b, gamma) is
\* solve_blaze_output(b, gamma).
C23_BlazeIsReflection ==
    /\ step # "start" =>
          /\ MirrorFrame(res[1]) = <<MirrorFrame(args.v)[1], MirrorFrame(args.v)[2],
                                     Neg(MirrorFrame(args.v)[3])>>
          /\ NormSq(res[1]) = NormSq(args.v)
    /\ step = "output_twice" => res[2] = args.v
    /\ step = "input" => res[2] = solve_blaze_output(res[1], args.gamma)

\* a vector that the reflection moves, at a non-zero mirror angle, recovered
\* by the second application
C23_Witness ==
    /\ step = "output_twice"
    /\ Sin(args.gamma) # Zero
    /\ MirrorFrame(args.v)[3] # Zero
    /\ res[1] # args.v
    /\ res[2] = args.v

(***************************************************************************)
(* sinc_fn on scalars and arrays.  A scalar argument is a one-element      *)
(* array after np.atleast_1d; the result is an array of the same length.   *)
(* Arguments are in units of pi, as everywhere for the sinc.               *)
(***************************************************************************)
atleast_1d(x) == IF x.scalar THEN <<x.value>> ELSE x.value
\* sinc_fn applied to an array
sinc_fn_array(x) ==
    Only({[ii \in DOMAIN a |-> sinc_fn(a[ii])] : a \in {atleast_1d(x)}})

SincArguments == {Zero, Half, Neg(Half), One, IntN(-2), Rat(1, 3), Rat(5, 2), NaN}

InitSinc ==
    /\ args \in {[scalar |-> TRUE, value |-> v] : v \in SincArguments}
             \cup {[scalar |-> FALSE, value |-> v] :
                     v \in UNION {[1..n -> SincArguments] : n \in 1..MaxLen}}
    /\ step = "start"
    /\ res = <<>>
    /\ NoSimulation

SincFn ==
    /\ step = "start"
    /\ res' = sinc_fn_array(args)
    /\ step' = "returned"
    /\ UNCHANGED <<args, tasks, results, prev>>

\* the product of two returned sinc values, as blaze_envelope forms it
SincProduct ==
    /\ step = "returned"
    /\ Len(res) >= 2
    /\ res' = <<EnvVal(Mul(res[1].c, res[2].c), res[1].a, res[2].a)>>
    /\ step' = "envelope"
    /\ UNCHANGED <<args, tasks, results, prev>>

NextSinc == SincFn \/ SincProduct
SpecSinc == InitSinc /\ [][NextSinc]_vars

\* C24: sinc_fn returns, for a scalar as for an array, one value per element:
\* exactly 1 where the element is 0 and sin(x)/x elsewhere; no error is
\* raised, and a NaN is in the result only where the argument is NaN.
C24_SincAtZero ==
    step = "returned" =>
        /\ DOMAIN res = DOMAIN atleast_1d(args)
        /\ \A ii \in DOMAIN res :
              /\ atleast_1d(args)[ii] = Zero => res[ii] = SincVal(One, Zero)
              /\ atleast_1d(args)[ii] # Zero => res[ii] = SinOverX(atleast_1d(args)[ii])
              /\ IsNaN(res[ii].c) <=> IsNaN(atleast_1d(args)[ii])

\* an array with a zero next to a non-zero, non-integer element
C24_Witness ==
    /\ step = "returned"
    /\ ~args.scalar
    /\ Len(res) = 2
    /\ args.value[1] = Zero /\ res[1] = SincVal(One, Zero)
    /\ res[2].a # Zero

(***************************************************************************)
(* interpolate_dmd_data at output directions on and off the sample grid of *)
(* simulate_dmd_dft, for several diffraction orders.  The direction is     *)
(* given by its offset from the order, in units of the order spacing.      *)
(***************************************************************************)
GridOrders == {<<0, 0>>, <<1, 0>>, <<-1, 1>>}
GridOffsetsX == {Rat(q, 4) : q \in -2..1}
GridOffsetsY == {Rat(-1, 2), Zero}
\* the patterns whose first mirror is ON
GridPatterns == {p \in XvalPatterns : p[1][1] = 1}

InitGrid ==
    /\ args \in {[pattern |-> p, efield_profile |-> UniformProfile(p),
                  wavelength |-> Rat(1, 2), gamma_on |-> SimGamma,
                  gamma_off |-> NegAngle(SimGamma), dx |-> One, dy |-> One,
                  wx |-> Rat(9, 10), wy |-> Rat(9, 10), uvec_in |-> SimUvecIn,
                  zshifts |-> None, order |-> o, fx |-> fx, fy |-> fy] :
                    p \in GridPatterns, o \in GridOrders,
                    fx \in GridOffsetsX, fy \in GridOffsetsY}
    /\ step = "start"
    /\ res = <<>>
    /\ NoSimulation

\* the output direction of the call
GridDirection(call) == DftDirection(call, call.order, call.fx, call.fy)

\* simulate_dmd_dft(pattern, ..., order)
GridDft ==
    /\ step = "start"
    /\ res' = [dft |-> simulate_dmd_dft(args, args.order)]
    /\ step' = "dft"
    /\ UNCHANGED <<args, tasks, results, prev>>

\* interpolate_dmd_data(pattern, ..., order, [bvec]), with the values that
\* interp_x and interp_y take inside calc
GridInterpolate ==
    /\ step = "dft"
    /\ res' = Only({[dft |-> res.dft,
                     interp_x |-> interp_x(args, VSub(args.uvec_in, b)[1]),
                     interp_y |-> interp_y(args, VSub(args.uvec_in, b)[2]),
                     efields |-> interpolate_dmd_data(args, args.order, b)] :
                    b \in {GridDirection(args)}})
    /\ step' = "interpolated"
    /\ UNCHANGED <<args, tasks, results, prev>>

NextGrid == GridDft \/ GridInterpolate
SpecGrid == InitGrid /\ [][NextGrid]_vars

\* the grid frequencies, and the kernel arguments of the call's direction:
\* arg = fxs - dx / wavelength * amb_x with amb_x = wavelength / dx * (order + fx)
GridFxs == fftshift(fftfreq(PatternNx(args.pattern)))
GridFys == fftshift(fftfreq(PatternNy(args.pattern)))
KernelArgX(k) == Sub(GridFxs[k], Add(IntN(args.order[1]), args.fx))
KernelArgY(k) == Sub(GridFys[k], Add(IntN(args.order[2]), args.fy))
RealDirection == ~VIsNaN(GridDirection(args))

\* C25: each per-axis interpolation kernel is exactly 1 at every sample whose
\* argument is an integer, zero or not, and the interpolated field of a real
\* direction is not NaN.
C25_KernelAtIntegers ==
    step = "interpolated" =>
        /\ \A k \in DOMAIN res.interp_x :
              IsInteger(KernelArgX(k)) => res.interp_x[k] = COne
        /\ \A k \in DOMAIN res.interp_y :
              IsInteger(KernelArgY(k)) => res.interp_y[k] = COne
        /\ RealDirection => ~FieldIsNaN(res.efields)

\* a direction aligned with a sample in x at a non-zero integer argument, with
\* another sample in x at a non-integer argument
C25_Witness ==
    /\ step = "interpolated"
    /\ RealDirection
    /\ \E k \in DOMAIN res.interp_x :
          /\ IsInteger(KernelArgX(k)) /\ KernelArgX(k) # Zero
          /\ res.interp_x[k] = COne
    /\ \E k \in DOMAIN res.interp_x : ~IsInteger(KernelArgX(k))
    /\ res.efields # FieldZero

\* the indices of the sample that the call's direction lies on, if any
OnGridX == {k \in DOMAIN GridFxs : GridFxs[k] = args.fx}
OnGridY == {k \in DOMAIN GridFys : GridFys[k] = args.fy}

\* C30: for a real output direction on the sample grid of simulate_dmd_dft,
\* in any order, each interpolation kernel is 1 at the index of the sample
\* and 0 at every other index, and the interpolated field is the efields
\* value of simulate_dmd_dft at that sample.
C30_InterpolationOnGrid ==
    (step = "interpolated" /\ RealDirection) =>
        \A kx \in OnGridX, ky \in OnGridY :
            /\ \A k \in DOMAIN res.interp_x :
                  res.interp_x[k] = IF k = kx THEN COne ELSE CZero
            /\ \A k \in DOMAIN res.interp_y :
                  res.interp_y[k] = IF k = ky THEN COne ELSE CZero
            /\ res.efields = res.dft.efields[ky][kx]
            /\ res.dft.bvec[ky][kx] = GridDirection(args)

\* a sample of a non-zero order away from the centre of a pattern with ON and
\* OFF mirrors, where the field is not zero
C30_Witness ==
    /\ step = "interpolated"
    /\ RealDirection
    /\ args.order # <<0, 0>>
    /\ args.fx # Zero
    /\ OnGridX # {} /\ OnGridY # {}
    /\ Cardinality(DOMAIN res.interp_x) > 1
    /\ \E q \in Mirrors(args.pattern) : args.pattern[q[1]][q[2]] = 0
    /\ res.efields # FieldZero
    /\ \A kx \in OnGridX, ky \in OnGridY : res.efields = res.dft.efields[ky][kx]

InitBasis ==
    /\ args \in [optical_axis_uvec : UnitVecs]
    /\ step = "start"
    /\ res = <<>>
    /\ NoSimulation

\* xb, yb = get_fourier_plane_basis(optical_axis_uvec)
GetFourierPlaneBasis ==
    /\ step = "start"
    /\ res' = Only({[xb |-> b[1], yb |-> b[2]] :
                    b \in {get_fourier_plane_basis(args.optical_axis_uvec)}})
    /\ step' = "basis"
    /\ UNCHANGED <<args, tasks, results, prev>>

\* bf . xp, bf . yp, bf . opt_axis_vec for a direction bf (lines 619-621)
PupilCoordinates ==
    /\ step = "basis"
    /\ \E bf \in UnitVecs :
          res' = [xb |-> res.xb, yb |-> res.yb, bf |-> bf,
                  pupil |-> <<Dot(bf, res.xb), Dot(bf, res.yb),
                              Dot(bf, args.optical_axis_uvec)>>]
    /\ step' = "pupil"
    /\ UNCHANGED <<args, tasks, results, prev>>

NextBasis == GetFourierPlaneBasis \/ PupilCoordinates
SpecBasis == InitBasis /\ [][NextBasis]_vars

AxisInXZ == args.optical_axis_uvec[1] # Zero \/ args.optical_axis_uvec[3] # Zero

\* C27: for a unit optical axis whose x and z components are not both zero,
\* xb and yb have norm 1, are orthogonal to each other and to the axis; for
\* the axis (0, 0, 1) they are (1, 0, 0) and (0, 1, 0).
C27_FourierPlaneBasis ==
    step \in {"basis", "pupil"} =>
        /\ AxisInXZ =>
              /\ NormSq(res.xb) = One /\ NormSq(res.yb) = One
              /\ Dot(res.xb, res.yb) = Zero
              /\ Dot(res.xb, args.optical_axis_uvec) = Zero
              /\ Dot(res.yb, args.optical_axis_uvec) = Zero
        /\ args.optical_axis_uvec = <<Zero, Zero, One>> =>
              /\ res.xb = <<One, Zero, Zero>>
              /\ res.yb = <<Zero, One, Zero>>
        /\ (step = "pupil" /\ AxisInXZ) => NormSq(res.pupil) = One

\* a tilted axis with three non-zero components and a direction off the axis
C27_Witness ==
    /\ step = "pupil"
    /\ \A ii \in 1..3 : args.optical_axis_uvec[ii] # Zero
    /\ NormSq(res.xb) = One /\ NormSq(res.yb) = One
    /\ res.pupil[1] # Zero /\ res.pupil[2] # Zero

(***************************************************************************)
(* The core functions on arrays in memory.  As for xyz2mpz, `arrays` holds *)
(* every array by identity and a call is given the identities of its array *)
(* arguments; np.atleast_1d and np.atleast_2d of an array return the array *)
(* itself, arithmetic and np.stack make a new array, and an indexed        *)
(* assignment writes into the array it indexes.  A call returns the arrays *)
(* afterwards and the identities of the arrays it returns.                 *)
(***************************************************************************)
\* a[mask] = value and a[ii] = value: the array id gets the new contents
setitem(arrays, id, contents) == [arrays EXCEPT ![id] = contents]

\* mutant: bx and by are the columns of uvecs_in itself
solve_diffraction_output_arrays_in_place(arrays, uvecs_in, dx, dy, wavelength, order) ==
    Only({[arrays |-> np_array(setitem(arrays, uvecs_in, out), out),
           out |-> <<NewArray(arrays)>>] :
          out \in {[ii \in DOMAIN arrays[uvecs_in] |->
                      solve_diffraction_output(arrays[uvecs_in][ii], dx, dy,
                                               wavelength, order)]}})

\* bx, by and bz are new arrays (lines 759-762); lines 765-766 write into bx
\* and by; np.stack makes the returned array
solve_diffraction_output_arrays(arrays, uvecs_in, dx, dy, wavelength, order) ==
    Only({[arrays |->
              np_array(
                  setitem(setitem(np_array(np_array(np_array(arrays, bx), by), bz),
                                  NewArray(arrays),
                                  [ii \in DOMAIN bx |-> IF IsNaN(bz[ii]) THEN NaN ELSE bx[ii]]),
                          NewArray(arrays) + 1,
                          [ii \in DOMAIN by |-> IF IsNaN(bz[ii]) THEN NaN ELSE by[ii]]),
                  [ii \in DOMAIN bz |->
                      <<IF IsNaN(bz[ii]) THEN NaN ELSE bx[ii],
                        IF IsNaN(bz[ii]) THEN NaN ELSE by[ii], bz[ii]>>]),
           out |-> <<NewArray(arrays) + 3>>] :
          <<bx, by, bz>> \in
              {<<b1, b2, [ii \in DOMAIN b1 |-> Sqrt(Sub(Sub(One, Sq(b1[ii])), Sq(b2[ii])))]>> :
                 <<b1, b2>> \in
                     {<<[ii \in DOMAIN u |->
                            Sub(u[ii][1], Mul(Div(wavelength, dx), IntN(order[1])))],
                        [ii \in DOMAIN u |->
                            Sub(u[ii][2], Mul(Div(wavelength, dy), IntN(order[2])))]>> :
                        u \in {arrays[uvecs_in]}}}})

\* y = np.asarray(np.sin(x) / x) is a new array; y[x == 0] = 1 writes into it
sinc_fn_arrays(arrays, x) ==
    Only({[arrays |-> setitem(np_array(arrays, y), NewArray(arrays),
                              [ii \in DOMAIN y |->
                                  IF a[ii] = Zero THEN SincVal(One, Zero) ELSE y[ii]]),
           out |-> <<NewArray(arrays)>>] :
          <<a, y>> \in {<<v, [ii \in DOMAIN v |-> SinOverX(v[ii])]>> : v \in {arrays[x]}}})

\* np.stack makes the returned array (line 706)
solve_blaze_output_arrays(arrays, uvecs_in, gamma) ==
    Only({[arrays |-> np_array(arrays, out), out |-> <<NewArray(arrays)>>] :
          out \in {[ii \in DOMAIN arrays[uvecs_in] |->
                      solve_blaze_output(arrays[uvecs_in][ii], gamma)]}})

\* b_vecs, a_vecs_on and a_vecs_off are made inside the call, which has no
\* array argument; the rows of NaN and the rows of the a_vecs are written
\* into them (lines 876-896)
solve_2color_on_off_arrays(arrays, d, gamma_on, wavelength_on, n_on, wavelength_off, n_off) ==
    Only({[arrays |-> np_array(np_array(np_array(arrays, r.b_vecs), r.a_vecs_on),
                               r.a_vecs_off),
           out |-> <<NewArray(arrays), NewArray(arrays) + 1, NewArray(arrays) + 2>>] :
          r \in {solve_2color_on_off(d, gamma_on, wavelength_on, n_on,
                                     wavelength_off, n_off)}})

\* the call with the contents of its array arguments in place of their
\* identities; the identity 0 stands for zshifts = None
ArrayArguments == {"pattern", "efield_profile", "uvec_in", "uvecs_out", "bvecs_interp",
                   "zshifts"}
Deref(arrays, call) ==
    [f \in DOMAIN call |->
        IF f \in ArrayArguments
        THEN (IF call[f] = 0 THEN None ELSE arrays[call[f]])
        ELSE call[f]]

\* mask_phases of calc_output_angle for the directions from the i-th on: a
\* new array of zeros (line 116), written where the pattern is 0 (line 117)
\* and where it is 1 (line 118)
RECURSIVE mask_phases_arrays(_, _, _)
mask_phases_arrays(arrays, v, i) ==
    IF i > Len(v.uvecs_out) THEN arrays
    ELSE Only({mask_phases_arrays(
                   setitem(setitem(np_array(arrays,
                                       [my \in DOMAIN p |-> [mx \in DOMAIN p[my] |->
                                           EnvNum(Zero)]]),
                                   NewArray(arrays),
                                   [my \in DOMAIN p |-> [mx \in DOMAIN p[my] |->
                                       IF p[my][mx] = 0 THEN r[3] ELSE EnvNum(Zero)]]),
                           NewArray(arrays),
                           [my \in DOMAIN p |-> [mx \in DOMAIN p[my] |->
                               IF p[my][mx] = 0 THEN r[3]
                               ELSE IF p[my][mx] = 1 THEN r[2] ELSE EnvNum(Zero)]]),
                   v, i + 1) :
               <<p, r>> \in {<<v.pattern, calc_output_angle(v, v.uvecs_out[i])>>}})

\* simulate_dmd for uvecs_out of shape (N, 3): the raise of the checks, or
\* zshifts made when None (line 96), the mask_phases of each direction, and
\* the four returned arrays (lines 133-137)
simulate_dmd_arrays(arrays, call) ==
    Only({IF check_arguments(v) # "ok"
          THEN [arrays |-> arrays, out |-> <<>>, raised |-> check_arguments(v)]
          ELSE Only({[arrays |->
                         np_array(np_array(np_array(np_array(h,
                             [i \in DOMAIN r |-> r[i][1]]), [i \in DOMAIN r |-> r[i][2]]),
                             [i \in DOMAIN r |-> r[i][3]]), [i \in DOMAIN r |-> r[i][4]]),
                      out |-> <<NewArray(h), NewArray(h) + 1, NewArray(h) + 2,
                                NewArray(h) + 3>>,
                      raised |-> "no"] :
                     <<h, r>> \in
                         {<<mask_phases_arrays(IF call.zshifts = 0
                                               THEN np_array(arrays, ZShifts(v))
                                               ELSE arrays, v, 1),
                            [i \in DOMAIN v.uvecs_out |->
                                calc_output_angle(v, v.uvecs_out[i])]>>}}) :
          v \in {Deref(arrays, call)}})

\* simulate_dmd_dft makes the six arrays it returns and writes into none
simulate_dmd_dft_arrays(arrays, call) ==
    Only({[arrays |-> np_array(np_array(np_array(np_array(np_array(np_array(arrays,
                          r.efields), r.pattern_dft), r.pattern_complement_dft),
                          r.sinc_efield_on), r.sinc_efield_off), r.bvec),
           out |-> <<NewArray(arrays), NewArray(arrays) + 1, NewArray(arrays) + 2,
                     NewArray(arrays) + 3, NewArray(arrays) + 4, NewArray(arrays) + 5>>] :
          r \in {simulate_dmd_dft(Deref(arrays, call), call.order)}})

\* the kernel argument of interp_x and interp_y (lines 225, 231)
interp_arg(f, n, d, wavelength, amb) ==
    Div(Sub(Mul(f, IntN(n)), Mul(Div(Mul(IntN(n), d), wavelength), amb)), IntN(n))

\* val of interp_x and of interp_y for the directions from the i-th on: a new
\* array holding NaN where the argument is an integer (lines 226, 232), then
\* written to 1 there (lines 227, 233)
RECURSIVE interp_val_arrays(_, _, _)
interp_val_arrays(arrays, v, i) ==
    IF i > Len(v.bvecs_interp) THEN arrays
    ELSE Only({interp_val_arrays(
                   setitem(np_array(
                       setitem(np_array(arrays,
                                   [k \in DOMAIN ix |->
                                       IF IsInteger(interp_arg(fxs[k], Len(fxs), v.dx,
                                                               v.wavelength, amb[1]))
                                       THEN CNaN ELSE ix[k]]),
                               NewArray(arrays), ix),
                       [k \in DOMAIN iy |->
                           IF IsInteger(interp_arg(fys[k], Len(fys), v.dy,
                                                   v.wavelength, amb[2]))
                           THEN CNaN ELSE iy[k]]),
                       NewArray(arrays) + 1, iy),
                   v, i + 1) :
               <<amb, ix, iy, fxs, fys>> \in
                   {<<a, interp_x(v, a[1]), interp_y(v, a[2]),
                      fftshift(fftfreq(PatternNx(v.pattern))),
                      fftshift(fftfreq(PatternNy(v.pattern)))>> :
                      a \in {VSub(v.uvec_in, v.bvecs_interp[i])}}})

\* interpolate_dmd_data for bvecs_interp of shape (N, 3): the arrays of its
\* call of simulate_dmd_dft, val of each direction, and the returned efields
interpolate_dmd_data_arrays(arrays, call) ==
    Only({[arrays |-> np_array(h, [i \in DOMAIN v.bvecs_interp |->
                                     interpolate_dmd_data(v, call.order,
                                                          v.bvecs_interp[i])]),
           out |-> <<NewArray(h)>>] :
          <<h, v>> \in {<<interp_val_arrays(simulate_dmd_dft_arrays(arrays, call).arrays,
                                            w, 1), w>> :
                          w \in {Deref(arrays, call)}}})

(***************************************************************************)
(* The caller's arrays across a call of a core function: args holds the    *)
(* function called, the caller's arrays and the call; res holds the arrays *)
(* after the call and what the call returned or raised.                    *)
(***************************************************************************)
FrameBatches == {<<v>> : v \in DiffVecs} \cup {<<v, <<Rat(2, 3), Rat(1, 3), Rat(2, 3)>>>> :
                                                 v \in DiffVecs}
FrameOffsets == {<<Rat(-1, 2), Zero>>, <<Rat(1, 4), Rat(-1, 2)>>}

InitFrameSimulate ==
    args \in {[fn |-> "simulate_dmd",
               arrays |-> <<p, SimUvecIn, UvecsOutGrid(1, C)[1], ZShifts([pattern |-> p,
                                                                          zshifts |-> None])>>,
               call |-> [pattern |-> 1, uvec_in |-> 2, uvecs_out |-> 3, zshifts |-> z,
                         wavelength |-> Rat(1, 2), gamma_on |-> SimGamma,
                         gamma_off |-> NegAngle(SimGamma), dx |-> One, dy |-> One,
                         wx |-> w[1], wy |-> w[2]]] :
                p \in SimPatterns, C \in 1..MaxDirs, z \in {0, 4}, w \in SimWidths}
InitFrameDft ==
    args \in {[fn |-> f,
               arrays |-> <<p, UniformProfile(p), SimUvecIn,
                            <<DftDirection([uvec_in |-> SimUvecIn, wavelength |-> Rat(1, 2),
                                            dx |-> One, dy |-> One], o, q[1], q[2])>>>>,
               call |-> [pattern |-> 1, efield_profile |-> 2, uvec_in |-> 3,
                         bvecs_interp |-> 4, zshifts |-> 0,
                         wavelength |-> Rat(1, 2), gamma_on |-> SimGamma,
                         gamma_off |-> NegAngle(SimGamma), dx |-> One, dy |-> One,
                         wx |-> Rat(9, 10), wy |-> Rat(9, 10), order |-> o]] :
                f \in {"simulate_dmd_dft", "interpolate_dmd_data"},
                p \in GridPatterns, o \in GridOrders, q \in FrameOffsets}
InitFrameDiffraction ==
    args \in {[fn |-> "solve_diffraction_output", arrays |-> <<u>>,
               call |-> [uvecs_in |-> 1, dx |-> d[1], dy |-> d[2],
                         wavelength |-> Rat(1, 3), order |-> o]] :
                u \in FrameBatches, d \in Pitches, o \in Orders}
InitFrameBlaze ==
    args \in {[fn |-> "solve_blaze_output", arrays |-> <<u>>,
               call |-> [uvecs_in |-> 1, gamma |-> SimGamma]] : u \in FrameBatches}
InitFrameTwoColor ==
    args \in {[fn |-> "solve_2color_on_off", arrays |-> <<<<SimUvecIn>>>>,
               call |-> [d |-> One, gamma_on |-> g, wavelength_on |-> Rat(1, 2),
                         n_on |-> IntN(n), wavelength_off |-> Rat(1, 3),
                         n_off |-> IntN(-n)]] :
                g \in TwoColorGammas, n \in {1, 2}}
InitFrameSinc ==
    args \in {[fn |-> "sinc_fn", arrays |-> <<x>>, call |-> [x |-> 1]] :
                x \in UNION {[1..n -> SincArguments] : n \in 1..2}}

InitFrame ==
    /\ \/ InitFrameSimulate
       \/ InitFrameDft
       \/ InitFrameDiffraction
       \/ InitFrameBlaze
       \/ InitFrameTwoColor
       \/ InitFrameSinc
    /\ step = "call"
    /\ res = <<>>
    /\ NoSimulation

FrameSimulateDmd ==
    /\ step = "call"
    /\ args.fn = "simulate_dmd"
    /\ res' = simulate_dmd_arrays(args.arrays, args.call)
    /\ step' = IF res'.raised = "no" THEN "returned" ELSE "raised"
    /\ UNCHANGED <<args, tasks, results, prev>>

FrameSimulateDmdDft ==
    /\ step = "call"
    /\ args.fn = "simulate_dmd_dft"
    /\ res' = simulate_dmd_dft_arrays(args.arrays, args.call)
    /\ step' = "returned"
    /\ UNCHANGED <<args, tasks, results, prev>>

FrameInterpolateDmdData ==
    /\ step = "call"
    /\ args.fn = "interpolate_dmd_data"
    /\ res' = interpolate_dmd_data_arrays(args.arrays, args.call)
    /\ step' = "returned"
    /\ UNCHANGED <<args, tasks, results, prev>>

FrameSolveDiffractionOutput ==
    /\ step = "call"
    /\ args.fn = "solve_diffraction_output"
    /\ res' = solve_diffraction_output_arrays(args.arrays, args.call.uvecs_in,
                                              args.call.dx, args.call.dy,
                                              args.call.wavelength, args.call.order)
    /\ step' = "returned"
    /\ UNCHANGED <<args, tasks, results, prev>>

FrameSolveBlazeOutput ==
    /\ step = "call"
    /\ args.fn = "solve_blaze_output"
    /\ res' = solve_blaze_output_arrays(args.arrays, args.call.uvecs_in, args.call.gamma)
    /\ step' = "returned"
    /\ UNCHANGED <<args, tasks, results, prev>>

FrameSolve2ColorOnOff ==
    /\ step = "call"
    /\ args.fn = "solve_2color_on_off"
    /\ res' = solve_2color_on_off_arrays(args.arrays, args.call.d, args.call.gamma_on,
                                         args.call.wavelength_on, args.call.n_on,
                                         args.call.wavelength_off, args.call.n_off)
    /\ step' = "returned"
    /\ UNCHANGED <<args, tasks, results, prev>>

FrameSincFn ==
    /\ step = "call"
    /\ args.fn = "sinc_fn"
    /\ res' = sinc_fn_arrays(args.arrays, args.call.x)
    /\ step' = "returned"
    /\ UNCHANGED <<args, tasks, results, prev>>

NextFrame ==
    \/ FrameSimulateDmd
    \/ FrameSimulateDmdDft
    \/ FrameInterpolateDmdData
    \/ FrameSolveDiffractionOutput
    \/ FrameSolveBlazeOutput
    \/ FrameSolve2ColorOnOff
    \/ FrameSincFn
SpecFrame == InitFrame /\ [][NextFrame]_vars

\* C28: after a core function returns or raises, every array of the caller
\* holds the values it held before the call; the NaN flags of
\* solve_diffraction_output and the fix-up of sinc_fn are in arrays the call
\* made
C28_ArgumentsNotModified ==
    step \in {"returned", "raised"} =>
        /\ Len(res.arrays) >= Len(args.arrays)
        /\ \A id \in DOMAIN args.arrays : res.arrays[id] = args.arrays[id]
        /\ \A id \in DOMAIN res.out : res.out[id] > Len(args.arrays)

\* solve_diffraction_output has flagged an evanescent order of a real input
\* direction with NaN
C28_Witness ==
    /\ step = "returned"
    /\ args.fn = "solve_diffraction_output"
    /\ \E ii \in DOMAIN args.arrays[1] :
          /\ ~IsNaN(args.arrays[1][ii][1])
          /\ IsNaN(res.arrays[res.out[1]][ii][1])
          /\ ~IsNaN(res.arrays[res.out[1]][1 + Len(args.arrays[1]) - ii][1])

(***************************************************************************)
(* simulate_1d: for each input angle the output angles around the blaze    *)
(* direction, a call of simulate_dmd for each wavelength, and the          *)
(* diffraction orders along the antidiagonal.                              *)
(***************************************************************************)
\* the sum of two angles whose sum is not an odd multiple of pi/2
AngleAdd(a, b) ==
    Only({Angle(Div(Add(t1, t2), Sub(One, Mul(t1, t2))),
                k + (IF Lt(One, Mul(t1, t2)) THEN Sign(t1) ELSE 0)) :
          <<t1, t2, k>> \in {<<a.t, b.t, a.k + b.k>>}})

\* returns (tp, tm)
uvector2tmtp(vx, vy, vz) ==
    Only({angle2pm(t[1], t[2]) : t \in {uvector2txty(vx, vy, vz)}})

\* uvec_in.squeeze() of an array of shape (n, 3), a sequence of n rows: the
\* row itself when n = 1
squeeze(a) == IF Len(a) = 1 THEN a[1] ELSE a

\* simulate_dmd for uvec_in of shape (n, 3) and uvecs_out of shape (N, 3).
\* With one row the squeeze leaves a vector.  With more, amb has shape
\* (n, 3) and amb[0], amb[1], amb[2] at line 108 are its rows: the products
\* with mxmx and mymy need nx = 1 or nx = 3, and amb[2] is an IndexError for
\* two rows; for three or more the assignments of lines 117-118 need as many
\* mirrors as rows, and the envelopes, of shape (n,), do not fit
\* output_shape at line 134.
simulate_dmd_rows(call) ==
    IF check_arguments(call) # "ok"
    THEN [raised |-> check_arguments(call), out |-> <<>>]
    ELSE IF Len(call.uvec_in) = 1
    THEN [raised |-> "no",
          out |-> [i \in DOMAIN call.uvecs_out |->
                     calc_output_angle([call EXCEPT !.uvec_in = squeeze(call.uvec_in)],
                                       call.uvecs_out[i])]]
    ELSE IF PatternNx(call.pattern) \notin {1, 3}
    THEN [raised |-> "ValueError", out |-> <<>>]
    ELSE IF Len(squeeze(call.uvec_in)) < 3
    THEN [raised |-> "IndexError", out |-> <<>>]
    ELSE [raised |-> "ValueError", out |-> <<>>]

\* the call of simulate_dmd at lines 968-969
simulate_1d_call(a, r, uvec_in) ==
    [pattern |-> a.pattern, wavelength |-> a.wavelengths[r.ii],
     gamma_on |-> a.gamma_on, gamma_off |-> a.gamma_off,
     dx |-> a.dx, dy |-> a.dy, wx |-> a.wx, wy |-> a.wy,
     uvec_in |-> uvec_in, uvecs_out |-> r.uvecs_out[r.kk], zshifts |-> None]

SweepAngles == {Angle(Zero, 0), Angle(Rat(3, 4), 0), Angle(Rat(-4, 3), 0)}
SweepOffsets == {<<Angle(Zero, 0)>>, <<Angle(Zero, 0), Angle(Rat(1, 2), 0)>>}
SweepPatterns == {<<<<1>>>>, <<<<0>>>>}
SweepWavelengths == {<<Rat(1, 2)>>, <<Rat(1, 2), Rat(1, 3)>>}
MaxInputs == 3

InitSweep ==
    /\ args \in [pattern : SweepPatterns, wavelengths : SweepWavelengths,
                 gamma_on : {SimGamma}, gamma_off : {NegAngle(SimGamma)},
                 dx : {One}, dy : {One}, wx : {Rat(9, 10)}, wy : {Rat(9, 10)},
                 tm_ins : UNION {[1..n -> SweepAngles] : n \in 1..MaxInputs},
                 tm_out_offsets : SweepOffsets, ndiff_orders : {0}]
    /\ step = "call"
    /\ res = <<>>
    /\ NoSimulation

\* lines 926-953: the input directions, the blaze directions and the arrays
\* of zeros that take the results
Simulate1dInputs ==
    /\ step = "call"
    /\ res' = Only({[uvecs_in |-> uvecs_in,
                     bvec_blaze_on |-> [kk \in DOMAIN uvecs_in |->
                                          solve_blaze_output(uvecs_in[kk], args.gamma_on)],
                     bvec_blaze_off |-> [kk \in DOMAIN uvecs_in |->
                                           solve_blaze_output(uvecs_in[kk], args.gamma_off)],
                     uvecs_out |-> [kk \in DOMAIN uvecs_in |->
                                      [i \in DOMAIN args.tm_out_offsets |->
                                          <<Zero, Zero, Zero>>]],
                     efields |-> [kk \in DOMAIN uvecs_in |->
                                    [ii \in DOMAIN args.wavelengths |->
                                        [i \in DOMAIN args.tm_out_offsets |-> FieldZero]]],
                     sinc_efield_on |-> [kk \in DOMAIN uvecs_in |->
                                           [ii \in DOMAIN args.wavelengths |->
                                               [i \in DOMAIN args.tm_out_offsets |->
                                                   EnvNum(Zero)]]],
                     sinc_efield_off |-> [kk \in DOMAIN uvecs_in |->
                                            [ii \in DOMAIN args.wavelengths |->
                                                [i \in DOMAIN args.tm_out_offsets |->
                                                    EnvNum(Zero)]]],
                     diff_uvec_out |-> [kk \in DOMAIN uvecs_in |->
                                          [ii \in DOMAIN args.wavelengths |->
                                              [aa \in 1..(2 * args.ndiff_orders + 1) |->
                                                  <<Zero, Zero, Zero>>]]],
                     kk |-> 1, ii |-> 1, raised |-> "no"] :
                    uvecs_in \in
                        {[kk \in DOMAIN args.tm_ins |->
                            get_unit_vector(angle2xy(Angle(Zero, 0), args.tm_ins[kk])[1],
                                            angle2xy(Angle(Zero, 0), args.tm_ins[kk])[2],
                                            "in")]}})
    /\ step' = "angles"
    /\ UNCHANGED <<args, tasks, results, prev>>

\* lines 960-963: uvecs_out[kk], around the ON blaze direction of input kk
Simulate1dOutputAngles ==
    /\ step = "angles"
    /\ res' = [res EXCEPT !.uvecs_out[res.kk] =
                  [i \in DOMAIN args.tm_out_offsets |->
                      Only({get_unit_vector(angle2xy(Angle(Zero, 0), tm)[1],
                                            angle2xy(Angle(Zero, 0), tm)[2], "out") :
                            tm \in {AngleAdd(uvector2tmtp(res.bvec_blaze_on[res.kk][1],
                                                          res.bvec_blaze_on[res.kk][2],
                                                          res.bvec_blaze_on[res.kk][3])[2],
                                             args.tm_out_offsets[i])}})]]
    /\ step' = "simulate"
    /\ UNCHANGED <<args, tasks, results, prev>>

\* lines 968-969: simulate_dmd is given uvecs_in, the array of every input
\* direction; its results go to row kk and wavelength ii, or its error ends
\* simulate_1d
Simulate1dSimulate ==
    /\ step = "simulate"
    /\ \E r \in {simulate_dmd_rows(simulate_1d_call(args, res, res.uvecs_in))} :
          IF r.raised # "no"
          THEN /\ res' = [res EXCEPT !.raised = r.raised]
               /\ step' = "raised"
          ELSE /\ res' = [res EXCEPT
                            !.efields[res.kk][res.ii] =
                                [i \in DOMAIN r.out |-> r.out[i][1]],
                            !.sinc_efield_on[res.kk][res.ii] =
                                [i \in DOMAIN r.out |-> r.out[i][2]],
                            !.sinc_efield_off[res.kk][res.ii] =
                                [i \in DOMAIN r.out |-> r.out[i][3]]]
               /\ step' = "orders"
    /\ UNCHANGED <<args, tasks, results, prev>>

\* lines 972-973, and the step of the two loops
Simulate1dDiffractionOrders ==
    /\ step = "orders"
    /\ res' = [res EXCEPT
                  !.diff_uvec_out[res.kk][res.ii] =
                      [aa \in 1..(2 * args.ndiff_orders + 1) |->
                          solve_diffraction_output(
                              res.uvecs_in[res.kk], args.dx, args.dy,
                              args.wavelengths[res.ii],
                              <<aa - 1 - args.ndiff_orders, -(aa - 1 - args.ndiff_orders)>>)],
                  !.ii = IF res.ii < Len(args.wavelengths) THEN res.ii + 1 ELSE 1,
                  !.kk = IF res.ii < Len(args.wavelengths) THEN res.kk ELSE res.kk + 1]
    /\ step' = IF res.ii < Len(args.wavelengths) THEN "simulate"
               ELSE IF res.kk < Len(args.tm_ins) THEN "angles" ELSE "store"
    /\ UNCHANGED <<args, tasks, results, prev>>

\* lines 976-984: the dictionary is returned
Simulate1dReturn ==
    /\ step = "store"
    /\ step' = "returned"
    /\ UNCHANGED <<args, res, tasks, results, prev>>

NextSweep ==
    \/ Simulate1dInputs
    \/ Simulate1dOutputAngles
    \/ Simulate1dSimulate
    \/ Simulate1dDiffractionOrders
    \/ Simulate1dReturn
SpecSweep == InitSweep /\ [][NextSweep]_vars

\* the call of simulate_dmd for input kk and wavelength ii has been made
SimulateCalled(kk, ii) ==
    /\ step # "call"
    /\ \/ res.kk > kk
       \/ res.kk = kk /\ res.ii > ii
       \/ res.kk = kk /\ res.ii = ii /\ step \in {"orders", "raised"}

\* the results of simulate_dmd for the one input direction uvecs_in[kk] at the
\* output directions uvecs_out[kk]
SingleDirection(kk, ii) ==
    simulate_dmd_rows(simulate_1d_call(args, [res EXCEPT !.kk = kk, !.ii = ii],
                                       <<res.uvecs_in[kk]>>)).out

\* C29: with more than one input angle, once simulate_dmd has been called for
\* input kk and wavelength ii, efields[kk, :, ii], sinc_efield_on[kk, :, ii]
\* and sinc_efield_off[kk, :, ii] hold the results of simulate_dmd for the
\* input direction uvecs_in[kk] at the output directions uvecs_out[kk]
C29_RowsOfOneInputDirection ==
    Len(args.tm_ins) > 1 =>
        \A kk \in DOMAIN args.tm_ins, ii \in DOMAIN args.wavelengths :
            SimulateCalled(kk, ii) =>
                \A i \in DOMAIN args.tm_out_offsets :
                    /\ res.efields[kk][ii][i] = SingleDirection(kk, ii)[i][1]
                    /\ res.sinc_efield_on[kk][ii][i] = SingleDirection(kk, ii)[i][2]
                    /\ res.sinc_efield_off[kk][ii][i] = SingleDirection(kk, ii)[i][3]

\* with one input angle the rows are those of the one input direction
OneInputAngle ==
    (Len(args.tm_ins) = 1 /\ step = "returned") =>
        \A ii \in DOMAIN args.wavelengths, i \in DOMAIN args.tm_out_offsets :
            /\ res.efields[1][ii][i] = SingleDirection(1, ii)[i][1]
            /\ res.sinc_efield_on[1][ii][i] = SingleDirection(1, ii)[i][2]
            /\ res.sinc_efield_off[1][ii][i] = SingleDirection(1, ii)[i][3]

=============================================================================
